---- MODULE Spec2Model ----
(***************************************************************************)
(* Model of IntegrationConsumer (src/python-consumers/consumer.py): the    *)
(* two record buffers guarded by one lock, the append operations           *)
(* process_customer_record / process_inventory_record, and                 *)
(* merge_and_send_data with its HTTP dispatch and retention trim.          *)
(*                                                                         *)
(* Every thread of control that calls into the consumer is a member of     *)
(* Threads; each call is split into the step that enters `with self.lock:` *)
(* and the steps of the body; a thread waiting for the lock is a thread    *)
(* whose entering step is not enabled.                                     *)
(***************************************************************************)
EXTENDS Integers, Sequences, FiniteSets, TLC

\* ---------------------------------------------------------------- bounds
MaxAppends == 2
MaxMerges == 2
MaxTime == 1

\* ------------------------------------------------------- program constants
\* consumer.py:97-98: "keep last 100 for reference"
RETAIN == 100

\* consumer.py:23: self.merge_interval_seconds = 60
MERGE_INTERVAL_SECONDS == 60

\* test_consumer.py:129: the interval a caller sets on the constructed consumer
TEST_INTERVAL_SECONDS == 1

\* Python's None
NULL == "None"

\* the threads that call into the consumer (test_consumer.py:174-175 starts two)
Threads == {1, 2}

VARIABLES
    customer_records,   \* self.customer_records
    inventory_records,  \* self.inventory_records
    lock,               \* self.lock: 0 when free, else the thread holding it
    now,                \* the latest reading of the wall clock (datetime.now())
    pc,                 \* per thread: where its current call stands
    record,             \* per thread: the `record` argument of its append call
    merged_data,        \* per thread: the local merged_data of its merge call
    posts,              \* number of requests.post calls issued so far
    pre,                \* per thread: both buffers as its merge found them on taking the lock
    outcome,            \* how the dispatch of the merge that returned last ended
    raised,             \* TRUE iff the merge that returned last raised to its caller
    cust_base,          \* length of customer_records in the initial state
    inv_base,           \* length of inventory_records in the initial state
    cust_calls,         \* number of process_customer_record calls made
    inv_calls,          \* number of process_inventory_record calls made
    merge_calls,        \* number of merge_and_send_data calls made
    nonempty_merges,    \* number of merges that found a non-empty buffer
    mark,               \* buffer lengths and call counts when a merge last returned
    split,              \* TRUE while thread 1 alone has appended customers and thread 2
                        \* alone inventory (test_thread_safety_with_concurrent_processing)
    last_merge_time,         \* self.last_merge_time
    merge_interval_seconds,  \* self.merge_interval_seconds
    loop_pc,            \* where run() / consume_messages() stands
    message,            \* the message the for loop of consume_messages holds
    should_merge,       \* what the last call of should_merge_data returned
    pulled,             \* number of messages the loop has pulled from self.consumer
    checks,             \* number of should_merge_data calls made by the loop
    due_checks,         \* number of those calls that returned True
    resets,             \* number of executions of consumer.py:130
    startup_merges,     \* number of merge calls made by run() itself (consumer.py:144)
    closes,             \* number of self.consumer.close() calls
    last_attempt,       \* the latest merge call of run() / the loop: time, kind, failed
    prev_attempt,       \* the merge call before that one
    ended_by            \* what ended run(): "none" while it has not ended

\* the state of run() and consume_messages(), which the calls made by the
\* threads of Threads leave alone
loop_vars == <<last_merge_time, merge_interval_seconds, loop_pc, message, should_merge,
               pulled, checks, due_checks, resets, startup_merges, closes,
               last_attempt, prev_attempt, ended_by>>

vars == <<customer_records, inventory_records, lock, now, pc, record, merged_data,
          posts, pre, outcome, raised, cust_base, inv_base,
          cust_calls, inv_calls, merge_calls, nonempty_merges, mark, split,
          last_merge_time, merge_interval_seconds, loop_pc, message, should_merge,
          pulled, checks, due_checks, resets, startup_merges, closes,
          last_attempt, prev_attempt, ended_by>>

\* ------------------------------------------------------------ pure helpers

\* dict.get(key): the value, or None when the key is absent
Get(r, k) == IF k \in DOMAIN r THEN r[k] ELSE NULL

\* datetime.isoformat() of the clock reading t
IsoFormat(t) == "T" \o ToString(t)

\* s[-n:] for n > 0
LastN(s, n) == IF Len(s) <= n THEN s ELSE SubSeq(s, Len(s) - n + 1, Len(s))

\* mutant of ListAppend: the record is put at the front of the list
ListPrepend(list, x) == <<x>> \o list

\* list.append(x) (consumer.py:42, 55)
ListAppend(list, x) == Append(list, x)

\* the record process_customer_record stores (consumer.py:42-49)
CustomerRecord(r, t) ==
    [id |-> Get(r, "id"), name |-> Get(r, "name"), email |-> Get(r, "email"),
     status |-> Get(r, "status"), created_date |-> Get(r, "created_date"),
     received_at |-> IsoFormat(t)]

\* mutant of InventoryRecord: the payload's stock is passed through to the record
InventoryRecordWithStock(r, t) ==
    [id |-> Get(r, "id"), name |-> Get(r, "name"), price |-> Get(r, "price"),
     quantity |-> Get(r, "quantity"), category |-> Get(r, "category"),
     stock |-> Get(r, "stock"), received_at |-> IsoFormat(t)]

\* the record process_inventory_record stores (consumer.py:55-62)
InventoryRecord(r, t) ==
    [id |-> Get(r, "id"), name |-> Get(r, "name"), price |-> Get(r, "price"),
     quantity |-> Get(r, "quantity"), category |-> Get(r, "category"),
     received_at |-> IsoFormat(t)]

\* mutant of CountActive: counts every customer that has any status at all
RECURSIVE CountWithStatus(_)
CountWithStatus(s) ==
    IF s = <<>> THEN 0
    ELSE (IF Get(Head(s), "status") # NULL THEN 1 ELSE 0) + CountWithStatus(Tail(s))

\* len([c for c in customers if c.get('status') == 'active'])
RECURSIVE CountActive(_)
CountActive(s) ==
    IF s = <<>> THEN 0
    ELSE (IF Get(Head(s), "status") = "active" THEN 1 ELSE 0) + CountActive(Tail(s))

\* a batch that leaves out the newest customer record
MergedDataWithoutNewest(customers, inventory, t) ==
    [timestamp |-> IsoFormat(t),
     summary   |-> [total_customers  |-> Len(customers),
                    total_products   |-> Len(inventory),
                    active_customers |-> CountActive(customers)],
     customers |-> IF customers = <<>> THEN <<>>
                   ELSE SubSeq(customers, 1, Len(customers) - 1),
     inventory |-> inventory]

\* mutant of MergedData: a batch of only the records appended since the last merge
MergedDataNewOnly(customers, inventory, t) ==
    [timestamp |-> IsoFormat(t),
     summary   |-> [total_customers  |-> Len(customers),
                    total_products   |-> Len(inventory),
                    active_customers |-> CountActive(customers)],
     customers |-> SubSeq(customers, mark.clen + 1, Len(customers)),
     inventory |-> SubSeq(inventory, mark.ilen + 1, Len(inventory))]

\* the merged dataset built at consumer.py:73-82
MergedData(customers, inventory, t) ==
    [timestamp |-> IsoFormat(t),
     summary   |-> [total_customers  |-> Len(customers),
                    total_products   |-> Len(inventory),
                    active_customers |-> CountActive(customers)],
     customers |-> customers,
     inventory |-> inventory]

\* a retention that keeps the oldest records: x[:100]
RetainHead(s) == IF Len(s) > RETAIN THEN SubSeq(s, 1, RETAIN) ELSE <<>>

\* mutant of Retain: the window is kept from 100 records on, not from 101
RetainFromWindowSize(s) == IF Len(s) >= RETAIN THEN LastN(s, RETAIN) ELSE <<>>

\* consumer.py:97-98: x[-100:] if len(x) > 100 else []
Retain(s) == IF Len(s) > RETAIN THEN LastN(s, RETAIN) ELSE <<>>

\* ------------------------------------------------------------------ inputs

\* payloads of the customer topic: the i-th call carries id i; the status is
\* "active" or missing
CustomerPayloads(i) ==
    {[id |-> i, name |-> "John Doe", email |-> "john@example.com",
      status |-> "active", created_date |-> "2024-01-15"],
     [id |-> i, name |-> "John Doe", email |-> "john@example.com",
      created_date |-> "2024-01-15"]}

\* payloads of the inventory topic: the product of an odd id is as the tests
\* build it, with a quantity, that of an even id as the mock API serves it, with
\* a stock and no quantity
InventoryPayloads(i) ==
    {IF i % 2 = 1
     THEN [id |-> i, name |-> "Laptop", price |-> "999.99", quantity |-> 50,
           category |-> "Electronics"]
     ELSE [id |-> i, name |-> "Laptop", stock |-> 50, price |-> "999.99",
           category |-> "Electronics"]}

\* a customer buffer already holding n records (ids 1..n), as n earlier appends at
\* time 0 leave it
PreloadCustomers(n) ==
    [i \in 1..n |->
        CustomerRecord([id |-> i, name |-> "John Doe", email |-> "john@example.com",
                        status |-> IF i % 2 = 1 THEN "active" ELSE "inactive",
                        created_date |-> "2024-01-15"], 0)]

PreloadInventory(n) ==
    [i \in 1..n |->
        InventoryRecord([id |-> i, name |-> "Laptop", price |-> "999.99",
                         quantity |-> 50, category |-> "Electronics"], 0)]

\* sizes of the buffers in the initial states: empty, and one short of the window
PreloadSizes == {0, RETAIN - 1}

\* what requests.post can do: return a response with a status code, or raise
StatusCodes == {200, 500}
RequestExceptions == {"Timeout", "ConnectionError"}
OtherExceptions == {"Exception"}
Outcomes ==
    {[exc |-> NULL, status_code |-> s] : s \in StatusCodes}
    \cup {[exc |-> e, status_code |-> 0] : e \in RequestExceptions \cup OtherExceptions}

NoCall == [exc |-> "no_call", status_code |-> 0]
NoData == [exc |-> "no_data", status_code |-> 0]

NoPre == [customers |-> <<>>, inventory |-> <<>>]

Mark == [clen   |-> Len(customer_records), ccalls |-> cust_calls,
         ilen   |-> Len(inventory_records), icalls |-> inv_calls]

\* a clock that can be set back between two readings
ClockReadingsSetBack == 0..MaxTime

\* datetime.now(): the clock never runs backwards, so a reading is at least the
\* previous one
ClockReadings == now..MaxTime

\* the values of merge_interval_seconds: the one __init__ sets, and the one the
\* tests set on the constructed consumer
Intervals == {MERGE_INTERVAL_SECONDS, TEST_INTERVAL_SECONDS}

\* no merge call has been made by run() or the loop yet
NoAttempt == [time |-> 0, kind |-> "none", failed |-> FALSE]

\* ------------------------------------------------------------------- Init

\* the loop variable `message` before the for loop has bound it
NoMessage == [topic |-> NULL, value |-> [py_type |-> "NoneType"]]

\* the fields as __init__ assigns them (consumer.py:18-24), but for
\* merge_interval_seconds, after nc customer records and ni inventory records
\* have been processed
Fields(nc, ni) ==
    /\ customer_records = PreloadCustomers(nc) /\ cust_base = nc
    /\ inventory_records = PreloadInventory(ni) /\ inv_base = ni
    /\ lock = 0
    /\ now = 0
    /\ pc = [t \in Threads |-> "idle"]
    /\ record = [t \in Threads |-> NULL]
    /\ merged_data = [t \in Threads |-> NULL]
    /\ posts = 0
    /\ pre = [t \in Threads |-> NoPre]
    /\ outcome = NoCall
    /\ raised = FALSE
    /\ cust_calls = 0
    /\ inv_calls = 0
    /\ merge_calls = 0
    /\ nonempty_merges = 0
    /\ mark = [clen |-> cust_base, ccalls |-> 0, ilen |-> inv_base, icalls |-> 0]
    /\ split = TRUE
    /\ last_merge_time = now
    /\ message = NoMessage
    /\ should_merge = FALSE
    /\ pulled = 0
    /\ checks = 0
    /\ due_checks = 0
    /\ resets = 0
    /\ startup_merges = 0
    /\ closes = 0
    /\ last_attempt = NoAttempt
    /\ prev_attempt = NoAttempt
    /\ ended_by = "none"

\* the consumer that __init__ has returned, before run() is called
Constructed(nc, ni) == Fields(nc, ni) /\ loop_pc = "start"

Init ==
    /\ \E nc \in PreloadSizes : \E ni \in PreloadSizes : Constructed(nc, ni)
    /\ merge_interval_seconds = MERGE_INTERVAL_SECONDS

\* ------------------------------------------------- process_customer_record

\* mutant of ProcessCustomerEnter: the append does not take the lock
ProcessCustomerEnterUnlocked(t, r) ==
    /\ pc[t] = "idle"
    /\ cust_calls + inv_calls < MaxAppends
    /\ pc' = [pc EXCEPT ![t] = "customer_append"]
    /\ record' = [record EXCEPT ![t] = r]
    /\ cust_calls' = cust_calls + 1
    /\ split' = (split /\ t = 1)
    /\ UNCHANGED <<customer_records, inventory_records, lock, now, merged_data, posts,
                   pre, outcome, raised, cust_base, inv_base, inv_calls,
                   merge_calls, nonempty_merges, mark>>
    /\ UNCHANGED loop_vars

\* a thread calls process_customer_record(r) and enters `with self.lock:`
\* (consumer.py:41); a thread that finds the lock taken waits, i.e. the step is
\* not enabled until the lock is free
ProcessCustomerEnter(t, r) ==
    /\ pc[t] = "idle"
    /\ cust_calls + inv_calls < MaxAppends
    /\ lock = 0
    /\ lock' = t
    /\ pc' = [pc EXCEPT ![t] = "customer_append"]
    /\ record' = [record EXCEPT ![t] = r]
    /\ cust_calls' = cust_calls + 1
    /\ split' = (split /\ t = 1)
    /\ UNCHANGED <<customer_records, inventory_records, now, merged_data, posts,
                   pre, outcome, raised, cust_base, inv_base, inv_calls,
                   merge_calls, nonempty_merges, mark>>
    /\ UNCHANGED loop_vars

\* the body of the with block (consumer.py:42-50) and its exit, which frees the lock
ProcessCustomerAppend(t) ==
    /\ pc[t] = "customer_append"
    /\ now' \in ClockReadings
    /\ customer_records' = ListAppend(customer_records, CustomerRecord(record[t], now'))
    /\ lock' = IF lock = t THEN 0 ELSE lock
    /\ pc' = [pc EXCEPT ![t] = "idle"]
    /\ record' = [record EXCEPT ![t] = NULL]
    /\ UNCHANGED <<inventory_records, merged_data, posts, pre,
                   outcome, raised, cust_base, inv_base, cust_calls, inv_calls,
                   merge_calls, nonempty_merges, mark>>
    /\ UNCHANGED split
    /\ UNCHANGED loop_vars

\* ------------------------------------------------ process_inventory_record

\* a thread calls process_inventory_record(r) and enters `with self.lock:`
\* (consumer.py:54)
ProcessInventoryEnter(t, r) ==
    /\ pc[t] = "idle"
    /\ cust_calls + inv_calls < MaxAppends
    /\ lock = 0
    /\ lock' = t
    /\ pc' = [pc EXCEPT ![t] = "inventory_append"]
    /\ record' = [record EXCEPT ![t] = r]
    /\ inv_calls' = inv_calls + 1
    /\ split' = (split /\ t = 2)
    /\ UNCHANGED <<customer_records, inventory_records, now, merged_data, posts,
                   pre, outcome, raised, cust_base, inv_base, cust_calls,
                   merge_calls, nonempty_merges, mark>>
    /\ UNCHANGED loop_vars

\* mutant of ProcessInventoryAppend: the product is appended to the customer list
ProcessInventoryAppendToCustomers(t) ==
    /\ pc[t] = "inventory_append"
    /\ now' \in ClockReadings
    /\ customer_records' = ListAppend(customer_records, InventoryRecord(record[t], now'))
    /\ lock' = IF lock = t THEN 0 ELSE lock
    /\ pc' = [pc EXCEPT ![t] = "idle"]
    /\ record' = [record EXCEPT ![t] = NULL]
    /\ UNCHANGED <<inventory_records, merged_data, posts, pre,
                   outcome, raised, cust_base, inv_base, cust_calls, inv_calls,
                   merge_calls, nonempty_merges, mark, split>>
    /\ UNCHANGED loop_vars

\* consumer.py:55-63 and the exit of the with block
ProcessInventoryAppend(t) ==
    /\ pc[t] = "inventory_append"
    /\ now' \in ClockReadings
    /\ inventory_records' = ListAppend(inventory_records, InventoryRecord(record[t], now'))
    /\ lock' = IF lock = t THEN 0 ELSE lock
    /\ pc' = [pc EXCEPT ![t] = "idle"]
    /\ record' = [record EXCEPT ![t] = NULL]
    /\ UNCHANGED <<customer_records, merged_data, posts, pre,
                   outcome, raised, cust_base, inv_base, cust_calls, inv_calls,
                   merge_calls, nonempty_merges, mark>>
    /\ UNCHANGED split
    /\ UNCHANGED loop_vars

\* ----------------------------------------------------- merge_and_send_data

\* mutant of NothingToMerge: the second `not` is missing
NothingToMergeMissingNot(customers, inventory) == customers = <<>> /\ inventory # <<>>

\* mutant of NothingToMerge: `or` in place of `and`
NothingToMergeEither(customers, inventory) == customers = <<>> \/ inventory = <<>>

\* consumer.py:68: not self.customer_records and not self.inventory_records
NothingToMerge(customers, inventory) == customers = <<>> /\ inventory = <<>>

\* mutant of Delivered: any response counts as delivered, whatever its status
DeliveredAnyStatus(o) == o.exc = NULL

\* response.status_code == 200 (consumer.py:93), for a call that returned a response
Delivered(o) == o.exc = NULL /\ o.status_code = 200

\* mutant of AfterDispatch: the trim is applied whatever the outcome
AfterDispatchUnconditional(buffer, o) == Retain(buffer)

\* what the try block leaves in a buffer (consumer.py:93-104): trimmed on status 200,
\* untouched on any other status and on an exception
AfterDispatch(buffer, o) == IF Delivered(o) THEN Retain(buffer) ELSE buffer

\* mutant of Propagates: the handler catches requests.exceptions.Timeout only
PropagatesAllButTimeout(o) == o.exc # NULL /\ o.exc # "Timeout"

\* a merge whose except clause is missing: every exception of the POST leaves it
PropagatesEvery(o) == o.exc # NULL

\* `except requests.exceptions.RequestException` (consumer.py:103): TRUE iff the
\* outcome is an exception that the handler does not catch
Propagates(o) == o.exc # NULL /\ o.exc \notin RequestExceptions

\* a merge that reads the buffers without taking the lock
MergeEnterUnlocked(t) ==
    /\ pc[t] = "idle"
    /\ merge_calls < MaxMerges
    /\ pc' = [pc EXCEPT ![t] = "merge_check"]
    /\ merge_calls' = merge_calls + 1
    /\ pre' = [pre EXCEPT ![t] = [customers |-> customer_records,
                                  inventory |-> inventory_records]]
    /\ nonempty_merges' = IF customer_records = <<>> /\ inventory_records = <<>>
                          THEN nonempty_merges ELSE nonempty_merges + 1
    /\ UNCHANGED <<customer_records, inventory_records, lock, now, record, merged_data,
                   posts, outcome, raised, cust_base, inv_base, cust_calls, inv_calls,
                   mark>>
    /\ UNCHANGED split
    /\ UNCHANGED loop_vars

\* a thread calls merge_and_send_data() and enters `with self.lock:`
\* (consumer.py:67)
MergeEnter(t) ==
    /\ pc[t] = "idle"
    /\ merge_calls < MaxMerges
    /\ lock = 0
    /\ lock' = t
    /\ pc' = [pc EXCEPT ![t] = "merge_check"]
    /\ merge_calls' = merge_calls + 1
    /\ pre' = [pre EXCEPT ![t] = [customers |-> customer_records,
                                  inventory |-> inventory_records]]
    /\ nonempty_merges' = IF customer_records = <<>> /\ inventory_records = <<>>
                          THEN nonempty_merges ELSE nonempty_merges + 1
    /\ UNCHANGED <<customer_records, inventory_records, now, record, merged_data, posts,
                   outcome, raised, cust_base, inv_base, cust_calls, inv_calls, mark>>
    /\ UNCHANGED split
    /\ UNCHANGED loop_vars

\* mutant of MergeCheck: the lock guards the snapshot only and is free while the
\* POST is in flight
MergeCheckReleasesLock(t) ==
    /\ pc[t] = "merge_check"
    /\ IF NothingToMerge(customer_records, inventory_records)
       THEN /\ lock' = IF lock = t THEN 0 ELSE lock
            /\ pc' = [pc EXCEPT ![t] = "idle"]
            /\ outcome' = NoData
            /\ raised' = FALSE
            /\ pre' = [pre EXCEPT ![t] = NoPre]
            /\ mark' = Mark
            /\ UNCHANGED <<now, merged_data, posts>>
       ELSE /\ now' \in ClockReadings
            /\ merged_data' = [merged_data EXCEPT
                                 ![t] = MergedData(customer_records, inventory_records, now')]
            /\ pc' = [pc EXCEPT ![t] = "merge_post"]
            /\ posts' = posts + 1
            /\ lock' = 0
            /\ UNCHANGED <<outcome, raised, mark, pre>>
    /\ UNCHANGED <<customer_records, inventory_records, record,
                   cust_base, inv_base, cust_calls, inv_calls, merge_calls,
                   nonempty_merges>>
    /\ UNCHANGED split
    /\ UNCHANGED loop_vars

\* consumer.py:68-91: the early return on empty buffers, else the batch is built and
\* requests.post is called
MergeCheck(t) ==
    /\ pc[t] = "merge_check"
    /\ IF NothingToMerge(customer_records, inventory_records)
       THEN /\ lock' = IF lock = t THEN 0 ELSE lock
            /\ pc' = [pc EXCEPT ![t] = "idle"]
            /\ outcome' = NoData
            /\ raised' = FALSE
            /\ pre' = [pre EXCEPT ![t] = NoPre]
            /\ mark' = Mark
            /\ UNCHANGED <<now, merged_data, posts>>
       ELSE /\ now' \in ClockReadings
            /\ merged_data' = [merged_data EXCEPT
                                 ![t] = MergedData(customer_records, inventory_records, now')]
            /\ pc' = [pc EXCEPT ![t] = "merge_post"]
            /\ posts' = posts + 1
            /\ UNCHANGED <<lock, outcome, raised, mark, pre>>
    /\ UNCHANGED <<customer_records, inventory_records, record,
                   cust_base, inv_base, cust_calls, inv_calls, merge_calls,
                   nonempty_merges>>
    /\ UNCHANGED split
    /\ UNCHANGED loop_vars

\* mutant of MergeResponse: acquire and release written out without a with block
\* or finally, so that an exception that propagates skips the release
MergeResponseLeaksLock(t, o) ==
    /\ pc[t] = "merge_post"
    /\ customer_records' = AfterDispatch(customer_records, o)
    /\ inventory_records' = AfterDispatch(inventory_records, o)
    /\ raised' = Propagates(o)
    /\ outcome' = o
    /\ lock' = IF lock = t /\ ~Propagates(o) THEN 0 ELSE lock
    /\ pc' = [pc EXCEPT ![t] = "idle"]
    /\ merged_data' = [merged_data EXCEPT ![t] = NULL]
    /\ pre' = [pre EXCEPT ![t] = NoPre]
    /\ mark' = [clen |-> Len(customer_records'), ccalls |-> cust_calls,
                ilen |-> Len(inventory_records'), icalls |-> inv_calls]
    /\ UNCHANGED <<now, record, posts, cust_base, inv_base,
                   cust_calls, inv_calls, merge_calls, nonempty_merges>>
    /\ UNCHANGED split
    /\ UNCHANGED loop_vars

\* consumer.py:86-104: requests.post ends with outcome o; the buffers are trimmed on
\* status 200; the with block is left, freeing the lock
MergeResponse(t, o) ==
    /\ pc[t] = "merge_post"
    /\ customer_records' = AfterDispatch(customer_records, o)
    /\ inventory_records' = AfterDispatch(inventory_records, o)
    /\ raised' = Propagates(o)
    /\ outcome' = o
    /\ lock' = IF lock = t THEN 0 ELSE lock
    /\ pc' = [pc EXCEPT ![t] = "idle"]
    /\ merged_data' = [merged_data EXCEPT ![t] = NULL]
    /\ pre' = [pre EXCEPT ![t] = NoPre]
    /\ mark' = [clen |-> Len(customer_records'), ccalls |-> cust_calls,
                ilen |-> Len(inventory_records'), icalls |-> inv_calls]
    /\ UNCHANGED <<now, record, posts, cust_base, inv_base,
                   cust_calls, inv_calls, merge_calls, nonempty_merges>>
    /\ UNCHANGED split
    /\ UNCHANGED loop_vars

Next ==
    \E t \in Threads :
        \/ \E r \in CustomerPayloads(cust_base + cust_calls + 1) : ProcessCustomerEnter(t, r)
        \/ ProcessCustomerAppend(t)
        \/ \E r \in InventoryPayloads(inv_base + inv_calls + 1) : ProcessInventoryEnter(t, r)
        \/ ProcessInventoryAppend(t)
        \/ MergeEnter(t)
        \/ MergeCheck(t)
        \/ \E o \in Outcomes : MergeResponse(t, o)

Spec == Init /\ [][Next]_vars

\* ------------------------------------------------ run / consume_messages

\* bounds of the consumer loop
MaxMessages == 2
MaxIntervals == 2

\* config.py:8-9
CUSTOMER_TOPIC == "customer_data"
INVENTORY_TOPIC == "inventory_data"

\* the topics a message can carry: the two subscribed ones and a foreign one
Topics == {CUSTOMER_TOPIC, INVENTORY_TOPIC, "order_data"}

\* the thread that runs run() (consumer.py:149-151)
LoopThread == 1

\* the clock after a call that blocks (connecting to the brokers, waiting for a
\* message, waiting for the HTTP response) when it read t before: it has not
\* moved, or has moved by one second less than the merge interval, or by the
\* whole interval. Between two statements that do not block it does not move.
ReadingsAfter(t, interval) ==
    {u \in {t, t + interval - 1, t + interval} : u <= MaxIntervals * interval}

LoopClockReadings == ReadingsAfter(now, merge_interval_seconds)

\* a message value that json.loads did not turn into a dict: it has no get()
NotADict == [py_type |-> "list"]

\* dict.get exists: the value is a dict
HasGet(r) == "py_type" \notin DOMAIN r

\* message values that are not what the producers send: a dict with fields
\* missing and a field of the wrong type, and a value that is not a dict
MalformedPayloads(i) == {[id |-> i, name |-> 42], NotADict}

\* the values a message of a topic can carry
MessageValues(topic) ==
    IF topic = CUSTOMER_TOPIC
    THEN CustomerPayloads(cust_base + cust_calls + 1)
            \cup MalformedPayloads(cust_base + cust_calls + 1)
    ELSE IF topic = INVENTORY_TOPIC
    THEN InventoryPayloads(inv_base + inv_calls + 1)
            \cup MalformedPayloads(inv_base + inv_calls + 1)
    ELSE {NotADict}

\* a merge that is due only once more than the interval has passed
ShouldMergeDataStrict(t, last, interval) == t - last > interval

\* consumer.py:108: datetime.now() - self.last_merge_time >= timedelta(seconds=...)
ShouldMergeData(t, last, interval) == t - last >= interval

\* a routing that hands each topic to the handler of the other
RouteSwapped(topic) ==
    IF topic = CUSTOMER_TOPIC THEN "inventory"
    ELSE IF topic = INVENTORY_TOPIC THEN "customer"
    ELSE "ignore"

\* a routing with `else` in the place of the `elif`
RouteElse(topic) ==
    IF topic = CUSTOMER_TOPIC THEN "customer"
    ELSE "inventory"

\* consumer.py:121-125: the branch taken for a message of the topic
Route(topic) ==
    IF topic = CUSTOMER_TOPIC THEN "customer"
    ELSE IF topic = INVENTORY_TOPIC THEN "inventory"
    ELSE "ignore"

\* the spec's lifecycle state of each position of run() / consume_messages()
Lifecycle(p) ==
    CASE p \in {"new", "start", "startup_post", "startup_trim"} -> "STARTING"
      [] p \in {"pull", "route", "check", "branch", "merge_post", "merge_trim", "reset"}
           -> "RUNNING"
      [] p = "finally" -> "SHUTTING_DOWN"
      [] p \in {"stopped", "crashed", "init_failed"} -> "STOPPED"

\* mutant of LoopMergeCall: every merge call, the one of run() included, sets
\* last_merge_time
LoopMergeCallResetting(kind, empty_pc, post_pc) ==
    /\ merge_calls' = merge_calls + 1
    /\ prev_attempt' = last_attempt
    /\ last_merge_time' = now
    /\ IF NothingToMerge(customer_records, inventory_records)
       THEN /\ loop_pc' = empty_pc
            /\ outcome' = NoData
            /\ raised' = FALSE
            /\ last_attempt' = [time |-> now, kind |-> kind, failed |-> FALSE]
            /\ mark' = Mark
            /\ UNCHANGED <<lock, merged_data, posts, pre, nonempty_merges>>
       ELSE /\ merged_data' = [merged_data EXCEPT
                 ![LoopThread] = MergedData(customer_records, inventory_records, now)]
            /\ pre' = [pre EXCEPT ![LoopThread] = [customers |-> customer_records,
                                                   inventory |-> inventory_records]]
            /\ lock' = LoopThread
            /\ posts' = posts + 1
            /\ nonempty_merges' = nonempty_merges + 1
            /\ loop_pc' = post_pc
            /\ last_attempt' = [time |-> now, kind |-> kind, failed |-> FALSE]
            /\ UNCHANGED <<outcome, raised, mark>>
    /\ UNCHANGED <<customer_records, inventory_records, now, pc, record, cust_base,
                   inv_base,
                   cust_calls, inv_calls, split,
                   merge_interval_seconds, message, should_merge, pulled, checks,
                   due_checks, resets, closes, ended_by>>

\* merge_and_send_data called by run() or the loop (consumer.py:65-91), up to the
\* early return (then the caller goes on at empty_pc) or to the POST being in
\* flight (then the caller waits at post_pc holding the lock)
LoopMergeCall(kind, empty_pc, post_pc) ==
    /\ merge_calls' = merge_calls + 1
    /\ prev_attempt' = last_attempt
    /\ IF NothingToMerge(customer_records, inventory_records)
       THEN /\ loop_pc' = empty_pc
            /\ outcome' = NoData
            /\ raised' = FALSE
            /\ last_attempt' = [time |-> now, kind |-> kind, failed |-> FALSE]
            /\ mark' = Mark
            /\ UNCHANGED <<lock, merged_data, posts, pre, nonempty_merges>>
       ELSE /\ merged_data' = [merged_data EXCEPT
                 ![LoopThread] = MergedData(customer_records, inventory_records, now)]
            /\ pre' = [pre EXCEPT ![LoopThread] = [customers |-> customer_records,
                                                   inventory |-> inventory_records]]
            /\ lock' = LoopThread
            /\ posts' = posts + 1
            /\ nonempty_merges' = nonempty_merges + 1
            /\ loop_pc' = post_pc
            /\ last_attempt' = [time |-> now, kind |-> kind, failed |-> FALSE]
            /\ UNCHANGED <<outcome, raised, mark>>
    /\ UNCHANGED <<customer_records, inventory_records, now, pc, record, cust_base,
                   inv_base,
                   cust_calls, inv_calls, split, last_merge_time,
                   merge_interval_seconds, message, should_merge, pulled, checks,
                   due_checks, resets, closes, ended_by>>

\* consumer.py:86-104: requests.post ends with outcome o. On a response of status
\* 200 line 96 trims customer_records and the merge goes on, holding the lock, to
\* line 97 at trim_pc; otherwise merge_and_send_data returns to its caller, which
\* goes on at ok_pc, or raises, which takes the caller to raise_pc
LoopMergeReturn(o, ok_pc, raise_pc, trim_pc) ==
    /\ customer_records' = AfterDispatch(customer_records, o)
    /\ raised' = Propagates(o)
    /\ outcome' = o
    /\ last_attempt' = [last_attempt EXCEPT
                          !.failed = (o.exc # NULL \/ o.status_code # 200)]
    /\ ended_by' = IF Propagates(o) THEN "error" ELSE ended_by
    /\ IF Delivered(o)
       THEN /\ loop_pc' = trim_pc
            /\ UNCHANGED <<lock, merged_data, pre, mark>>
       ELSE /\ loop_pc' = IF Propagates(o) THEN raise_pc ELSE ok_pc
            /\ lock' = 0
            /\ merged_data' = [merged_data EXCEPT ![LoopThread] = NULL]
            /\ pre' = [pre EXCEPT ![LoopThread] = NoPre]
            /\ mark' = [clen |-> Len(customer_records'), ccalls |-> cust_calls,
                        ilen |-> Len(inventory_records), icalls |-> inv_calls]
    /\ now' \in LoopClockReadings
    /\ UNCHANGED <<inventory_records, pc, record, posts, cust_base, inv_base,
                   cust_calls, inv_calls, merge_calls, nonempty_merges, split,
                   last_merge_time, merge_interval_seconds, message, should_merge,
                   pulled, checks, due_checks, resets, startup_merges, closes,
                   prev_attempt>>

\* consumer.py:97: inventory_records is trimmed, the with block ends and
\* merge_and_send_data returns to its caller, which goes on at ok_pc
LoopMergeTrimInventory(ok_pc) ==
    /\ inventory_records' = Retain(inventory_records)
    /\ lock' = 0
    /\ merged_data' = [merged_data EXCEPT ![LoopThread] = NULL]
    /\ pre' = [pre EXCEPT ![LoopThread] = NoPre]
    /\ mark' = [clen |-> Len(customer_records), ccalls |-> cust_calls,
                ilen |-> Len(inventory_records'), icalls |-> inv_calls]
    /\ loop_pc' = ok_pc
    /\ UNCHANGED <<customer_records, now, pc, record, posts, outcome, raised,
                   cust_base, inv_base, cust_calls, inv_calls, merge_calls,
                   nonempty_merges, split, last_merge_time,
                   merge_interval_seconds, message, should_merge, pulled,
                   checks, due_checks, resets, startup_merges, closes,
                   last_attempt, prev_attempt, ended_by>>

\* a run() that makes the startup merge only when one is due
RunStartupMergeIfDue ==
    /\ loop_pc = "start"
    /\ IF ShouldMergeData(now, last_merge_time, merge_interval_seconds)
       THEN /\ startup_merges' = startup_merges + 1
            /\ LoopMergeCall("startup", "pull", "startup_post")
       ELSE /\ loop_pc' = "pull"
            /\ UNCHANGED <<customer_records, inventory_records, lock, now, pc, record,
                           merged_data, posts, pre, outcome, raised, cust_base,
                           inv_base, cust_calls, inv_calls, merge_calls,
                           nonempty_merges, mark, split, last_merge_time,
                           merge_interval_seconds, message, should_merge, pulled,
                           checks, due_checks, resets, startup_merges, closes,
                           last_attempt, prev_attempt, ended_by>>

\* run() (consumer.py:139-144): the merge made before the loop is entered
RunStartupMerge ==
    /\ loop_pc = "start"
    /\ startup_merges' = startup_merges + 1
    /\ LoopMergeCall("startup", "pull", "startup_post")

\* the POST of the startup merge ends; an exception the merge does not catch
\* leaves run() before consume_messages is called
RunStartupReturn(o) ==
    /\ loop_pc = "startup_post"
    /\ LoopMergeReturn(o, "pull", "crashed", "startup_trim")

\* the startup merge trims inventory_records and returns; run() enters the loop
RunStartupTrim ==
    /\ loop_pc = "startup_trim"
    /\ LoopMergeTrimInventory("pull")

\* a wait that a timer ends when a merge has become due
LoopWaitOrTimer ==
    /\ loop_pc = "pull"
    /\ now' \in LoopClockReadings \ {now}
    /\ should_merge' = ShouldMergeData(now', last_merge_time, merge_interval_seconds)
    /\ loop_pc' = IF should_merge' THEN "branch" ELSE "pull"
    /\ UNCHANGED <<customer_records, inventory_records, lock, pc, record,
                   merged_data, posts, pre, outcome, raised, cust_base,
                   inv_base, cust_calls, inv_calls, merge_calls,
                   nonempty_merges, mark, split, last_merge_time,
                   merge_interval_seconds, message, pulled, checks, due_checks,
                   resets, startup_merges, closes, last_attempt, prev_attempt, ended_by>>

\* time passes while the for loop waits for the next message (consumer.py:115)
LoopWait ==
    /\ loop_pc = "pull"
    /\ now' \in LoopClockReadings \ {now}
    /\ UNCHANGED <<customer_records, inventory_records, lock, pc, record, merged_data,
                   posts, pre, outcome, raised, cust_base, inv_base, cust_calls,
                   inv_calls, merge_calls, nonempty_merges, mark, split,
                   last_merge_time, merge_interval_seconds, loop_pc, message,
                   should_merge, pulled, checks, due_checks, resets, startup_merges,
                   closes, last_attempt, prev_attempt, ended_by>>

\* a loop that goes on pulling while a POST is in flight
LoopPullDuringDispatch(topic, value) ==
    /\ loop_pc \in {"pull", "merge_post"}
    /\ pulled < MaxMessages
    /\ message' = [topic |-> topic, value |-> value]
    /\ pulled' = pulled + 1
    /\ loop_pc' = "route"
    /\ UNCHANGED <<customer_records, inventory_records, lock, now, pc, record,
                   merged_data, posts, pre, outcome, raised, cust_base,
                   inv_base, cust_calls, inv_calls, merge_calls,
                   nonempty_merges, mark, split, last_merge_time,
                   merge_interval_seconds, should_merge, checks, due_checks,
                   resets, startup_merges, closes, last_attempt, prev_attempt,
                   ended_by>>

\* the for loop receives the next message (consumer.py:115-117)
LoopPull(topic, value) ==
    /\ loop_pc = "pull"
    /\ pulled < MaxMessages
    /\ message' = [topic |-> topic, value |-> value]
    /\ pulled' = pulled + 1
    /\ loop_pc' = "route"
    /\ UNCHANGED <<customer_records, inventory_records, lock, now, pc, record,
                   merged_data, posts, pre, outcome, raised, cust_base, inv_base,
                   cust_calls, inv_calls, merge_calls, nonempty_merges, mark, split,
                   last_merge_time, merge_interval_seconds, should_merge, checks,
                   due_checks, resets, startup_merges, closes, last_attempt,
                   prev_attempt, ended_by>>

\* consumer.py:121-125: the message is handed to process_customer_record or to
\* process_inventory_record, which appends under the lock, or to neither. A
\* value without get() makes record.get raise AttributeError inside the with
\* block (consumer.py:43, 56): the lock is freed, nothing is appended and the
\* error is caught by `except Exception` (consumer.py:134)
LoopRoute ==
    /\ loop_pc = "route"
    /\ CASE Route(message.topic) = "customer" /\ HasGet(message.value) ->
              /\ customer_records' =
                    ListAppend(customer_records, CustomerRecord(message.value, now))
              /\ cust_calls' = cust_calls + 1
              /\ loop_pc' = "check"
              /\ UNCHANGED <<inventory_records, inv_calls, ended_by>>
         [] Route(message.topic) = "inventory" /\ HasGet(message.value) ->
              /\ inventory_records' =
                    ListAppend(inventory_records, InventoryRecord(message.value, now))
              /\ inv_calls' = inv_calls + 1
              /\ loop_pc' = "check"
              /\ UNCHANGED <<customer_records, cust_calls, ended_by>>
         [] Route(message.topic) = "ignore" ->
              /\ loop_pc' = "check"
              /\ UNCHANGED <<customer_records, inventory_records, cust_calls,
                             inv_calls, ended_by>>
         [] OTHER ->
              /\ loop_pc' = "finally"
              /\ ended_by' = "error"
              /\ UNCHANGED <<customer_records, inventory_records, cust_calls,
                             inv_calls>>
    /\ UNCHANGED <<lock, now, pc, record, merged_data, posts, pre, outcome, raised,
                   cust_base, inv_base, merge_calls, nonempty_merges, mark, split,
                   last_merge_time, merge_interval_seconds, message, should_merge,
                   pulled, checks, due_checks, resets, startup_merges, closes,
                   last_attempt, prev_attempt>>

\* consumer.py:128: should_merge_data() is called and returns
LoopCheck ==
    /\ loop_pc = "check"
    /\ should_merge' = ShouldMergeData(now, last_merge_time, merge_interval_seconds)
    /\ checks' = checks + 1
    /\ due_checks' = IF should_merge' THEN due_checks + 1 ELSE due_checks
    /\ loop_pc' = "branch"
    /\ UNCHANGED <<customer_records, inventory_records, lock, now, pc, record, merged_data,
                   posts, pre, outcome, raised, cust_base, inv_base, cust_calls,
                   inv_calls, merge_calls, nonempty_merges, mark, split,
                   last_merge_time, merge_interval_seconds, message, pulled, resets,
                   startup_merges, closes, last_attempt, prev_attempt, ended_by>>

\* a loop that calls the merge after every message
LoopBranchAlways ==
    /\ loop_pc = "branch"
    /\ LoopMergeCall("periodic", "reset", "merge_post")
    /\ UNCHANGED startup_merges

\* mutant of LoopBranch: a merge that found nothing to send is not followed by
\* the reset of last_merge_time
LoopBranchNoResetWhenEmpty ==
    /\ loop_pc = "branch"
    /\ IF should_merge
       THEN /\ LoopMergeCall("periodic", "pull", "merge_post")
            /\ UNCHANGED startup_merges
       ELSE /\ loop_pc' = "pull"
            /\ UNCHANGED <<customer_records, inventory_records, lock, now, pc, record,
                           merged_data, posts, pre, outcome, raised, cust_base,
                           inv_base, cust_calls, inv_calls, merge_calls,
                           nonempty_merges, mark, split, last_merge_time,
                           merge_interval_seconds, message, should_merge, pulled,
                           checks, due_checks, resets, startup_merges, closes,
                           last_attempt, prev_attempt, ended_by>>

\* consumer.py:128-129: on True merge_and_send_data is called, on False the loop
\* goes back to the for statement
LoopBranch ==
    /\ loop_pc = "branch"
    /\ IF should_merge
       THEN /\ LoopMergeCall("periodic", "reset", "merge_post")
            /\ UNCHANGED startup_merges
       ELSE /\ loop_pc' = "pull"
            /\ UNCHANGED <<customer_records, inventory_records, lock, now, pc, record,
                           merged_data, posts, pre, outcome, raised, cust_base,
                           inv_base, cust_calls, inv_calls, merge_calls,
                           nonempty_merges, mark, split, last_merge_time,
                           merge_interval_seconds, message, should_merge, pulled,
                           checks, due_checks, resets, startup_merges, closes,
                           last_attempt, prev_attempt, ended_by>>

\* mutant of LoopMergeResponse: no `except Exception` clause, so that what the
\* merge does not catch leaves consume_messages and run()
LoopMergeResponseReraises(o) ==
    /\ loop_pc = "merge_post"
    /\ LoopMergeReturn(o, "reset", "crashed", "merge_trim")

\* the POST of a merge made by the loop ends; an exception the merge does not
\* catch is caught by `except Exception` (consumer.py:134)
LoopMergeResponse(o) ==
    /\ loop_pc = "merge_post"
    /\ LoopMergeReturn(o, "reset", "finally", "merge_trim")

\* the merge made by the loop trims inventory_records and returns
LoopMergeTrim ==
    /\ loop_pc = "merge_trim"
    /\ LoopMergeTrimInventory("reset")

\* a loop that goes back to the for statement without the assignment
LoopResetSkipped ==
    /\ loop_pc = "reset"
    /\ last_merge_time' = last_merge_time
    /\ resets' = resets + 1
    /\ loop_pc' = "pull"
    /\ UNCHANGED <<customer_records, inventory_records, lock, now, pc, record, merged_data,
                   posts, pre, outcome, raised, cust_base, inv_base, cust_calls,
                   inv_calls, merge_calls, nonempty_merges, mark, split,
                   merge_interval_seconds, message, should_merge, pulled, checks,
                   due_checks, startup_merges, closes, last_attempt, prev_attempt, ended_by>>

\* a loop that makes the assignment only after a delivered batch
LoopResetOnSuccessOnly ==
    /\ loop_pc = "reset"
    /\ last_merge_time' = IF last_attempt.failed THEN last_merge_time ELSE now
    /\ resets' = resets + 1
    /\ loop_pc' = "pull"
    /\ UNCHANGED <<customer_records, inventory_records, lock, now, pc, record, merged_data,
                   posts, pre, outcome, raised, cust_base, inv_base, cust_calls,
                   inv_calls, merge_calls, nonempty_merges, mark, split,
                   merge_interval_seconds, message, should_merge, pulled, checks,
                   due_checks, startup_merges, closes, last_attempt, prev_attempt, ended_by>>

\* consumer.py:130: self.last_merge_time = datetime.now()
LoopReset ==
    /\ loop_pc = "reset"
    /\ last_merge_time' = now
    /\ resets' = resets + 1
    /\ loop_pc' = "pull"
    /\ UNCHANGED <<customer_records, inventory_records, lock, now, pc, record, merged_data,
                   posts, pre, outcome, raised, cust_base, inv_base, cust_calls,
                   inv_calls, merge_calls, nonempty_merges, mark, split,
                   merge_interval_seconds, message, should_merge, pulled, checks,
                   due_checks, startup_merges, closes, last_attempt, prev_attempt, ended_by>>

\* KeyboardInterrupt in the try block (consumer.py:114-133): the with block, if
\* entered, frees the lock; control goes to the finally clause
LoopInterrupt ==
    /\ Lifecycle(loop_pc) = "RUNNING"
    /\ ended_by' = "interrupt"
    /\ loop_pc' = "finally"
    /\ lock' = 0
    /\ merged_data' = [merged_data EXCEPT ![LoopThread] = NULL]
    /\ pre' = [pre EXCEPT ![LoopThread] = NoPre]
    /\ UNCHANGED <<customer_records, inventory_records, now, pc, record, posts,
                   outcome, raised, cust_base, inv_base, cust_calls, inv_calls,
                   merge_calls, nonempty_merges, mark, split, last_merge_time,
                   merge_interval_seconds, message, should_merge, pulled, checks,
                   due_checks, resets, startup_merges, closes, last_attempt,
                   prev_attempt>>

\* mutant of LoopExhausted: close() at the end of the try block instead of in a
\* finally clause, with a return of the for loop that skips it
LoopExhaustedNoClose ==
    /\ loop_pc = "pull"
    /\ ended_by' = "exhausted"
    /\ loop_pc' = "stopped"
    /\ UNCHANGED <<customer_records, inventory_records, lock, now, pc, record,
                   merged_data, posts, pre, outcome, raised, cust_base, inv_base,
                   cust_calls, inv_calls, merge_calls, nonempty_merges, mark, split,
                   last_merge_time, merge_interval_seconds, message, should_merge,
                   pulled, checks, due_checks, resets, startup_merges, closes,
                   last_attempt, prev_attempt>>

\* the iteration over self.consumer ends (consumer.py:115)
LoopExhausted ==
    /\ loop_pc = "pull"
    /\ ended_by' = "exhausted"
    /\ loop_pc' = "finally"
    /\ UNCHANGED <<customer_records, inventory_records, lock, now, pc, record,
                   merged_data, posts, pre, outcome, raised, cust_base, inv_base,
                   cust_calls, inv_calls, merge_calls, nonempty_merges, mark, split,
                   last_merge_time, merge_interval_seconds, message, should_merge,
                   pulled, checks, due_checks, resets, startup_merges, closes,
                   last_attempt, prev_attempt>>

\* a finally clause that sends what the buffers hold before closing
LoopCloseAfterFlush ==
    /\ loop_pc = "finally"
    /\ closes' = closes + 1
    /\ loop_pc' = "stopped"
    /\ merge_calls' = merge_calls + 1
    /\ posts' = posts + 1
    /\ customer_records' = <<>>
    /\ inventory_records' = <<>>
    /\ UNCHANGED <<lock, now, pc, record, merged_data, pre, outcome, raised,
                   cust_base, inv_base, cust_calls, inv_calls, nonempty_merges,
                   mark, split, last_merge_time, merge_interval_seconds,
                   message, should_merge, pulled, checks, due_checks, resets,
                   startup_merges, last_attempt, prev_attempt, ended_by>>

\* a finally clause that goes back to the for statement
LoopCloseAndResume ==
    /\ loop_pc = "finally"
    /\ closes' = closes + 1
    /\ loop_pc' = "pull"
    /\ UNCHANGED <<customer_records, inventory_records, lock, now, pc, record,
                   merged_data, posts, pre, outcome, raised, cust_base, inv_base,
                   cust_calls, inv_calls, merge_calls, nonempty_merges, mark, split,
                   last_merge_time, merge_interval_seconds, message, should_merge,
                   pulled, checks, due_checks, resets, startup_merges, last_attempt,
                   prev_attempt, ended_by>>

\* consumer.py:136-137: finally: self.consumer.close(); run() returns
LoopClose ==
    /\ loop_pc = "finally"
    /\ closes' = closes + 1
    /\ loop_pc' = "stopped"
    /\ UNCHANGED <<customer_records, inventory_records, lock, now, pc, record,
                   merged_data, posts, pre, outcome, raised, cust_base, inv_base,
                   cust_calls, inv_calls, merge_calls, nonempty_merges, mark, split,
                   last_merge_time, merge_interval_seconds, message, should_merge,
                   pulled, checks, due_checks, resets, startup_merges, last_attempt,
                   prev_attempt, ended_by>>

\* the customer records processed before run() is called: none, or one that
\* the startup merge finds
LoopPreloadSizes == {0, 1}

\* whether the Kafka brokers can be reached when KafkaConsumer(...) is called
BusReachable == BOOLEAN

\* a constructor that catches the error of KafkaConsumer(...) and goes on
NewConsumerSwallowsError(reachable, nc, interval) ==
    /\ loop_pc = "new"
    /\ customer_records' = PreloadCustomers(nc)
    /\ cust_base' = nc
    /\ mark' = [mark EXCEPT !.clen = nc]
    /\ merge_interval_seconds' = interval
    /\ last_merge_time' = now
    /\ now' \in ReadingsAfter(now, interval)
    /\ loop_pc' = "start"
    /\ ended_by' = IF reachable THEN ended_by ELSE "init_error"
    /\ UNCHANGED <<inventory_records, lock, pc, record, merged_data, posts,
                   pre, outcome, raised, inv_base, cust_calls, inv_calls,
                   merge_calls, nonempty_merges, split, message, should_merge,
                   pulled, checks, due_checks, resets, startup_merges, closes,
                   last_attempt, prev_attempt>>

\* IntegrationConsumer() (consumer.py:17-37), followed by what its caller does
\* before run(): setting the merge interval, processing nc customer records.
\* KafkaConsumer(...) raises when the brokers cannot be reached and __init__
\* passes the error on: the caller gets no consumer.
NewConsumer(reachable, nc, interval) ==
    /\ loop_pc = "new"
    /\ IF reachable
       THEN /\ customer_records' = PreloadCustomers(nc)
            /\ cust_base' = nc
            /\ mark' = [mark EXCEPT !.clen = nc]
            /\ merge_interval_seconds' = interval
            /\ last_merge_time' = now
            /\ now' \in ReadingsAfter(now, interval)
            /\ loop_pc' = "start"
            /\ UNCHANGED ended_by
       ELSE /\ loop_pc' = "init_failed"
            /\ ended_by' = "init_error"
            /\ UNCHANGED <<customer_records, cust_base, mark, merge_interval_seconds,
                           last_merge_time, now>>
    /\ UNCHANGED <<inventory_records, lock, pc, record, merged_data, posts,
                   pre, outcome, raised, inv_base, cust_calls, inv_calls,
                   merge_calls, nonempty_merges, split, message, should_merge,
                   pulled, checks, due_checks, resets, startup_merges, closes,
                   last_attempt, prev_attempt>>

\* before IntegrationConsumer() is called
InitLoop ==
    /\ Fields(0, 0)
    /\ loop_pc = "new"
    /\ merge_interval_seconds = MERGE_INTERVAL_SECONDS

NextLoop ==
    \/ \E reachable \in BusReachable : \E nc \in LoopPreloadSizes :
          \E interval \in Intervals : NewConsumer(reachable, nc, interval)
    \/ RunStartupMerge
    \/ \E o \in Outcomes : RunStartupReturn(o)
    \/ RunStartupTrim
    \/ LoopWait
    \/ \E topic \in Topics : \E value \in MessageValues(topic) : LoopPull(topic, value)
    \/ LoopRoute
    \/ LoopCheck
    \/ LoopBranch
    \/ \E o \in Outcomes : LoopMergeResponse(o)
    \/ LoopMergeTrim
    \/ LoopReset
    \/ LoopInterrupt
    \/ LoopExhausted
    \/ LoopClose

SpecLoop == InitLoop /\ [][NextLoop]_vars

\* ------------------------------------- consume_messages under steady traffic

\* The loop as above, written for behaviours that never end: the counters that
\* record its history (pulled, checks, merge_calls, posts, resets, ...) are left
\* as they are, and the clock is read relative to the last assignment of
\* last_merge_time: should_merge_data looks at the difference of the two only.
\* The received_at stamps, which are readings of different origins here, are
\* not compared under this specification.

\* the for loop receives the next message (consumer.py:115-117); at most
\* MaxMessages of the messages carry a record, the others are of another topic
LivePull(topic, value) ==
    /\ loop_pc = "pull"
    /\ Route(topic) = "ignore" \/ cust_calls + inv_calls < MaxMessages
    /\ loop_pc' = "route"
    /\ message' = [topic |-> topic, value |-> value]
    /\ UNCHANGED <<customer_records, inventory_records, lock, now, pc, record,
                   merged_data, posts, pre, outcome, raised, cust_base,
                   inv_base, cust_calls, inv_calls, merge_calls,
                   nonempty_merges, mark, split, last_merge_time,
                   merge_interval_seconds, should_merge, pulled, checks,
                   due_checks, resets, startup_merges, closes, last_attempt,
                   prev_attempt, ended_by>>

\* consumer.py:128: should_merge_data() is called and returns
LiveCheck ==
    /\ loop_pc = "check"
    /\ should_merge' = ShouldMergeData(now, last_merge_time, merge_interval_seconds)
    /\ loop_pc' = "branch"
    /\ UNCHANGED <<customer_records, inventory_records, lock, now, pc, record,
                   merged_data, posts, pre, outcome, raised, cust_base,
                   inv_base, cust_calls, inv_calls, merge_calls,
                   nonempty_merges, mark, split, last_merge_time,
                   merge_interval_seconds, message, pulled, checks,
                   due_checks, resets, startup_merges, closes, last_attempt,
                   prev_attempt, ended_by>>

\* mutant of LiveBranch: line 130 one indentation level out, so that
\* last_merge_time is set after every message, due or not
LiveBranchResetsAlways ==
    /\ loop_pc = "branch"
    /\ IF should_merge
       THEN IF NothingToMerge(customer_records, inventory_records)
            THEN /\ loop_pc' = "reset"
                 /\ outcome' = NoData
                 /\ raised' = FALSE
                 /\ mark' = Mark
                 /\ UNCHANGED <<lock, merged_data, pre>>
            ELSE /\ merged_data' = [merged_data EXCEPT
                      ![LoopThread] = MergedData(customer_records, inventory_records, now)]
                 /\ pre' = [pre EXCEPT ![LoopThread] = [customers |-> customer_records,
                                                        inventory |-> inventory_records]]
                 /\ lock' = LoopThread
                 /\ loop_pc' = "merge_post"
                 /\ UNCHANGED <<outcome, raised, mark>>
       ELSE /\ loop_pc' = "reset"
            /\ UNCHANGED <<lock, merged_data, pre, outcome, raised, mark>>
    /\ UNCHANGED <<customer_records, inventory_records, now, pc, record,
                   posts, cust_base, inv_base, cust_calls, inv_calls,
                   merge_calls, nonempty_merges, split, last_merge_time,
                   merge_interval_seconds, message, should_merge, pulled,
                   checks, due_checks, resets, startup_merges, closes,
                   last_attempt, prev_attempt, ended_by>>

\* consumer.py:128-129 with merge_and_send_data up to its early return
\* (consumer.py:68-70) or to the POST being in flight (consumer.py:73-91); on
\* False the loop goes back to the for statement
LiveBranch ==
    /\ loop_pc = "branch"
    /\ IF should_merge
       THEN IF NothingToMerge(customer_records, inventory_records)
            THEN /\ loop_pc' = "reset"
                 /\ outcome' = NoData
                 /\ raised' = FALSE
                 /\ mark' = Mark
                 /\ UNCHANGED <<lock, merged_data, pre>>
            ELSE /\ merged_data' = [merged_data EXCEPT
                      ![LoopThread] = MergedData(customer_records, inventory_records, now)]
                 /\ pre' = [pre EXCEPT ![LoopThread] = [customers |-> customer_records,
                                                        inventory |-> inventory_records]]
                 /\ lock' = LoopThread
                 /\ loop_pc' = "merge_post"
                 /\ UNCHANGED <<outcome, raised, mark>>
       ELSE /\ loop_pc' = "pull"
            /\ UNCHANGED <<lock, merged_data, pre, outcome, raised, mark>>
    /\ UNCHANGED <<customer_records, inventory_records, now, pc, record,
                   posts, cust_base, inv_base, cust_calls, inv_calls,
                   merge_calls, nonempty_merges, split, last_merge_time,
                   merge_interval_seconds, message, should_merge, pulled,
                   checks, due_checks, resets, startup_merges, closes,
                   last_attempt, prev_attempt, ended_by>>

\* consumer.py:130: last_merge_time = datetime.now(). The reading becomes the
\* origin of the clock: both are 0 from here on
LiveReset ==
    /\ loop_pc = "reset"
    /\ now' = 0
    /\ last_merge_time' = now'
    /\ loop_pc' = "pull"
    /\ UNCHANGED <<customer_records, inventory_records, lock, pc, record,
                   merged_data, posts, pre, outcome, raised, cust_base,
                   inv_base, cust_calls, inv_calls, merge_calls,
                   nonempty_merges, mark, split, merge_interval_seconds,
                   message, should_merge, pulled, checks, due_checks, resets,
                   startup_merges, closes, last_attempt, prev_attempt,
                   ended_by>>

\* the pull blocks while no message is there and the clock goes on, by a second
\* less than the interval or by the interval; waiting is followed until a merge
\* is due, later readings making no difference to should_merge_data
LiveWait ==
    /\ loop_pc = "pull"
    /\ now - last_merge_time < merge_interval_seconds
    /\ now' \in {now + merge_interval_seconds - 1, now + merge_interval_seconds}
    /\ UNCHANGED <<customer_records, inventory_records, lock, pc, record,
                   merged_data, posts, pre, outcome, raised, cust_base,
                   inv_base, cust_calls, inv_calls, merge_calls,
                   nonempty_merges, mark, split, last_merge_time,
                   merge_interval_seconds, loop_pc, message, should_merge,
                   pulled, checks, due_checks, resets, startup_merges, closes,
                   last_attempt, prev_attempt, ended_by>>

\* the POST of a merge made by the loop ends with outcome o (consumer.py:86-104):
\* on status 200 line 96 trims customer_records and the merge goes on to line
\* 97, holding the lock; otherwise the merge returns, or raises into the
\* `except Exception` clause of the loop (consumer.py:134)
LiveMergeResponse(o) ==
    /\ loop_pc = "merge_post"
    /\ customer_records' = AfterDispatch(customer_records, o)
    /\ raised' = Propagates(o)
    /\ outcome' = o
    /\ ended_by' = IF Propagates(o) THEN "error" ELSE ended_by
    /\ IF Delivered(o)
       THEN /\ loop_pc' = "merge_trim"
            /\ UNCHANGED <<lock, merged_data, pre, mark>>
       ELSE /\ loop_pc' = IF Propagates(o) THEN "finally" ELSE "reset"
            /\ lock' = 0
            /\ merged_data' = [merged_data EXCEPT ![LoopThread] = NULL]
            /\ pre' = [pre EXCEPT ![LoopThread] = NoPre]
            /\ mark' = [clen |-> Len(customer_records'), ccalls |-> cust_calls,
                        ilen |-> Len(inventory_records), icalls |-> inv_calls]
    /\ UNCHANGED <<inventory_records, now, pc, record, posts, cust_base,
                   inv_base, cust_calls, inv_calls, merge_calls,
                   nonempty_merges, split, last_merge_time,
                   merge_interval_seconds, message, should_merge, pulled,
                   checks, due_checks, resets, startup_merges, closes,
                   last_attempt, prev_attempt>>

\* the values of the messages of steady traffic: records that the handlers
\* accept, and a value of another topic
LiveValues(topic) ==
    IF topic = CUSTOMER_TOPIC
    THEN {r \in CustomerPayloads(cust_base + cust_calls + 1) : "status" \in DOMAIN r}
    ELSE IF topic = INVENTORY_TOPIC THEN InventoryPayloads(inv_base + inv_calls + 1)
    ELSE {NotADict}

\* a consumer has been constructed with empty buffers and run() is called
InitLive ==
    /\ Constructed(0, 0)
    /\ merge_interval_seconds = MERGE_INTERVAL_SECONDS

NextLive ==
    \/ RunStartupMerge
    \/ LiveWait
    \/ \E topic \in Topics : \E value \in LiveValues(topic) : LivePull(topic, value)
    \/ LoopRoute
    \/ LiveCheck
    \/ LiveBranch
    \/ \E o \in Outcomes : LiveMergeResponse(o)
    \/ LoopMergeTrim
    \/ LiveReset
    \/ LoopExhausted
    \/ LoopClose

\* the statements of run() and of the loop are executed one after the other by
\* a thread that is not suspended for good, and requests.post is called with
\* timeout=30 (consumer.py:90), so that it returns or raises
LoopRunsOn ==
    /\ WF_vars(RunStartupMerge)
    /\ WF_vars(LoopRoute)
    /\ WF_vars(LiveCheck)
    /\ WF_vars(LiveBranch)
    /\ WF_vars(\E o \in Outcomes : LiveMergeResponse(o))
    /\ WF_vars(LoopClose)
    /\ WF_vars(LoopMergeTrim)
    /\ WF_vars(LiveReset)

\* the traffic the flushing is claimed for: while the iterator has not ended it
\* yields another message, and the clock goes on between messages
SteadyTraffic ==
    /\ WF_vars(\E topic \in Topics : \E value \in LiveValues(topic) :
                  LivePull(topic, value))
    /\ SF_vars(LiveWait)

SpecLive == InitLive /\ [][NextLive]_vars /\ LoopRunsOn /\ SteadyTraffic

\* ------------------------------------------------------------ properties

\* a dispatch that did not end with a response of status 200
FailedDispatch(o) == o \in Outcomes /\ (o.exc # NULL \/ o.status_code # 200)

\* a dispatch that ended with a response of status 200
Status200(o) == o \in Outcomes /\ o.exc = NULL /\ o.status_code = 200

\* the retention policy as the specification words it: nothing is kept of a
\* collection of at most RETAIN records, else its last RETAIN records in order
IsRetentionOf(new, old) ==
    IF Len(old) <= RETAIN
    THEN new = <<>>
    ELSE /\ Len(new) = RETAIN
         /\ \A j \in 1..RETAIN : new[j] = old[Len(old) - RETAIN + j]

\* thread t's merge returns in this step, its POST having been issued
DispatchReturns(t) == pc[t] = "merge_post" /\ pc'[t] = "idle"

\* no call has been made since the last merge returned
QuietSinceMerge == mark = Mark /\ \A t \in Threads : pc[t] = "idle"

\* C1 (as stated; refuted): after a merge whose POST fails (a status other than
\* 200, or an exception) each buffer has been replaced by the empty collection
\* (prior size <= 100) or by its last 100 records (prior size > 100).
C1_TrimAppliedOnFailure ==
    [][\A t \in Threads :
          (DispatchReturns(t) /\ FailedDispatch(outcome'))
          => /\ IsRetentionOf(customer_records', pre[t].customers)
             /\ IsRetentionOf(inventory_records', pre[t].inventory)]_vars

\* C1 (amended): the retention trim is conditional on the dispatch outcome: the
\* step in which a merge returns from a failed POST (non-200 status or exception)
\* leaves each buffer as it is, neither emptied nor cut to its last 100.
C1_NoTrimOnFailure ==
    [][\A t \in Threads :
          (DispatchReturns(t) /\ FailedDispatch(outcome'))
          => /\ customer_records' = customer_records
             /\ inventory_records' = inventory_records]_vars

\* a merge has just returned from a failed POST and the records are still buffered
C1_Witness ==
    /\ QuietSinceMerge
    /\ FailedDispatch(outcome)
    /\ Len(customer_records) > RETAIN

\* C2: on a failed dispatch (status other than 200, timeout, connection error)
\* merge_and_send_data returns with customer_records and inventory_records
\* exactly as they were when the call took the lock.
C2_RecordsRetainedOnFailure ==
    [][\A t \in Threads :
          (DispatchReturns(t) /\ FailedDispatch(outcome'))
          => /\ customer_records' = pre[t].customers
             /\ inventory_records' = pre[t].inventory]_vars

\* a merge has just returned from a timeout or a non-200 status with records in
\* both buffers
C2_Witness ==
    /\ QuietSinceMerge
    /\ outcome \in {[exc |-> "Timeout", status_code |-> 0],
                    [exc |-> NULL, status_code |-> 500]}
    /\ customer_records # <<>>
    /\ inventory_records # <<>>

\* C3: after a merge whose POST returns 200, each buffer is empty if it held at
\* most 100 records before the merge and otherwise holds exactly its last 100
\* records in their original order; the batch sent holds all records held before.
C3_TrimOnSuccess ==
    [][\A t \in Threads :
          (DispatchReturns(t) /\ Status200(outcome'))
          => /\ IsRetentionOf(customer_records', pre[t].customers)
             /\ IsRetentionOf(inventory_records', pre[t].inventory)
             /\ merged_data[t].customers = pre[t].customers
             /\ merged_data[t].inventory = pre[t].inventory]_vars

\* a merge has just returned from a 200 that found more than 100 customers (it
\* left exactly 100) and at most 100 products (it left none)
C3_Witness ==
    /\ QuietSinceMerge
    /\ Status200(outcome)
    /\ Len(customer_records) = RETAIN
    /\ inventory_records = <<>>
    /\ inv_base + inv_calls > 0

\* C4: merge returns normally for every dispatch outcome the claim lists: status
\* 200, any other status, a timeout or connection error, and empty buffers.
C4_MergeReturnsNormally ==
    (\/ outcome = NoData
     \/ (outcome \in Outcomes /\ outcome.exc \in {NULL} \cup RequestExceptions))
    => ~raised

\* a merge has returned normally from a connection error
C4_Witness ==
    /\ outcome = [exc |-> "ConnectionError", status_code |-> 0]
    /\ ~raised
    /\ \A t \in Threads : pc[t] = "idle"

\* C5: a merge that finds both buffers empty issues no HTTP call and leaves both
\* buffers empty: its next step is the return.
C5_EmptyMergeIsNoOp ==
    [][\A t \in Threads :
          (/\ pc[t] = "merge_check"
           /\ pc'[t] # pc[t]
           /\ customer_records = <<>>
           /\ inventory_records = <<>>)
          => /\ pc'[t] = "idle"
             /\ posts' = posts
             /\ customer_records' = <<>>
             /\ inventory_records' = <<>>]_vars

\* a merge has returned on empty buffers and no POST was ever issued
C5_Witness ==
    /\ outcome = NoData
    /\ merge_calls > 0
    /\ posts = 0
    /\ \A t \in Threads : pc[t] = "idle"

\* C6: a merge that finds a buffer non-empty issues exactly one POST, whatever
\* the outcome: once no merge stands between taking the lock and its POST, the
\* number of POSTs equals the number of merges made on a non-empty buffer.
C6_OnePostPerMerge ==
    (\A t \in Threads : pc[t] # "merge_check") => posts = nonempty_merges

\* two merges have returned, the last from a failed dispatch, with two POSTs
C6_Witness ==
    /\ \A t \in Threads : pc[t] = "idle"
    /\ FailedDispatch(outcome)
    /\ nonempty_merges = 2
    /\ posts = 2

\* C7: in every dispatched batch the summary counts match the lists: all
\* customers, all products, and the customers whose status is exactly "active".
C7_SummaryCounts ==
    \A t \in Threads :
        pc[t] = "merge_post" =>
            LET b == merged_data[t]
                active == {i \in 1..Len(b.customers) : b.customers[i].status = "active"}
            IN /\ b.summary.total_customers = Len(b.customers)
               /\ b.summary.total_products = Len(b.inventory)
               /\ b.summary.active_customers = Cardinality(active)
               /\ b.summary.active_customers <= b.summary.total_customers

\* a batch is in flight with active customers, inactive ones and one without status
C7_Witness ==
    \E t \in Threads :
        /\ pc[t] = "merge_post"
        /\ merged_data[t].summary.active_customers > 0
        /\ \E i \in 1..Len(merged_data[t].customers) :
               merged_data[t].customers[i].status = "inactive"
        /\ \E i \in 1..Len(merged_data[t].customers) :
               merged_data[t].customers[i].status = NULL

\* C8: the lists of a dispatched batch are the buffers as the merge found them
\* on taking the lock, and the buffers stay exactly that from then until the
\* merge returns, so no append takes effect between snapshot and trim.
C8_MergeAtomic ==
    \A t \in Threads :
        /\ pc[t] \in {"merge_check", "merge_post"}
           => /\ lock = t
              /\ customer_records = pre[t].customers
              /\ inventory_records = pre[t].inventory
        /\ pc[t] = "merge_post"
           => /\ merged_data[t].customers = pre[t].customers
              /\ merged_data[t].inventory = pre[t].inventory

\* a batch with both kinds of record is in flight while calls remain to be made
C8_Witness ==
    \E t \in Threads :
        /\ pc[t] = "merge_post"
        /\ merged_data[t].customers # <<>>
        /\ merged_data[t].inventory # <<>>
        /\ cust_calls + inv_calls < MaxAppends

\* the ids of the records of a buffer, in buffer order
Ids(buffer) == [j \in 1..Len(buffer) |-> buffer[j].id]

\* the n consecutive ids ending with id last
IdRun(n, last) == [j \in 1..n |-> last - n + j]

\* C9: N appends on one buffer since the last merge leave it N records longer,
\* the records in call order (the i-th call carries id i) with none dropped,
\* duplicated or reordered, each with a non-null received_at.
C9_AppendsInOrder ==
    /\ (\A t \in Threads : pc[t] # "customer_append")
       => /\ Len(customer_records) = mark.clen + (cust_calls - mark.ccalls)
          /\ Ids(customer_records) = IdRun(Len(customer_records), cust_base + cust_calls)
          /\ \A j \in 1..Len(customer_records) : customer_records[j].received_at # NULL
    /\ (\A t \in Threads : pc[t] # "inventory_append")
       => /\ Len(inventory_records) = mark.ilen + (inv_calls - mark.icalls)
          /\ Ids(inventory_records) = IdRun(Len(inventory_records), inv_base + inv_calls)
          /\ \A j \in 1..Len(inventory_records) : inventory_records[j].received_at # NULL

\* two customer appends have been made since a merge returned
C9_Witness ==
    /\ \A t \in Threads : pc[t] = "idle"
    /\ merge_calls > 0
    /\ cust_calls - mark.ccalls = 2
    /\ Len(customer_records) = mark.clen + 2

\* C10: with appends of customers and of inventory interleaved across threads and
\* no merge, once every thread has finished each buffer's length is the number
\* of append calls made on it (on top of what it held), with no id twice.
C10_NoLostAppend ==
    (merge_calls = 0 /\ \A t \in Threads : pc[t] = "idle")
    => /\ Len(customer_records) = cust_base + cust_calls
       /\ Len(inventory_records) = inv_base + inv_calls
       /\ Cardinality({customer_records[j].id : j \in 1..Len(customer_records)})
             = Len(customer_records)
       /\ Cardinality({inventory_records[j].id : j \in 1..Len(inventory_records)})
             = Len(inventory_records)

\* thread 1 has appended customers only and thread 2 inventory only, and both
\* have finished
C10_Witness ==
    /\ merge_calls = 0
    /\ \A t \in Threads : pc[t] = "idle"
    /\ split
    /\ cust_calls > 0
    /\ inv_calls > 0

\* C11: should_merge_data returns True exactly when the time it reads is at
\* least merge_interval_seconds after last_merge_time, and until the loop first
\* resets it last_merge_time is the time of construction.
C11_DueIffIntervalElapsed ==
    /\ loop_pc = "branch" =>
         (should_merge <=> now - last_merge_time >= merge_interval_seconds)
    /\ resets = 0 => last_merge_time = 0

\* a check made exactly one interval after last_merge_time has answered True
C11_Witness ==
    /\ loop_pc = "branch"
    /\ should_merge
    /\ now - last_merge_time = merge_interval_seconds

\* C12: with the merge interval set to 1 second, the first should_merge_data
\* call on the consumer as constructed, made before the interval has elapsed,
\* returns True.
C12_DueOnFirstCheck ==
    ( /\ loop_pc = "branch"
      /\ checks = 1
      /\ resets = 0
      /\ merge_interval_seconds = TEST_INTERVAL_SECONDS
      /\ now - last_merge_time < merge_interval_seconds ) => should_merge

\* the loop is between two merges: the last merge call has returned and the
\* statement after it, if any, has run
BetweenAttempts == loop_pc \in {"pull", "route", "check", "branch"}

\* C13 as stated: once any merge call of the consumer, the one of run()
\* included, is over, last_merge_time is no earlier than the time of that call.
C13_ResetAfterAnyAttempt ==
    (BetweenAttempts /\ last_attempt.kind # "none") =>
        last_merge_time >= last_attempt.time

\* C13: once a merge call made by the loop has returned, delivered or not,
\* last_merge_time has been set to a time read after the call was made; the
\* merge call of run() is followed by no assignment.
C13_ResetAfterLoopAttempt ==
    (BetweenAttempts /\ last_attempt.kind = "periodic") =>
        /\ last_attempt.time <= last_merge_time
        /\ last_merge_time <= now
        /\ resets > 0

\* the loop has gone on after a merge call of its own whose POST failed
C13_Witness ==
    /\ loop_pc = "pull"
    /\ last_attempt.kind = "periodic"
    /\ last_attempt.failed
    /\ last_merge_time > 0

C15_OneStartupMerge ==
    /\ startup_merges <= 1
    /\ loop_pc = "start" => (merge_calls = 0 /\ pulled = 0 /\ checks = 0)
    /\ loop_pc = "startup_post" => (merge_calls = 1 /\ pulled = 0 /\ checks = 0)
    /\ Lifecycle(loop_pc) \in {"RUNNING", "SHUTTING_DOWN"} => startup_merges = 1
    /\ pulled > 0 => startup_merges = 1

\* the loop has been entered after a startup merge made when none was due
C15_Witness ==
    /\ loop_pc = "pull"
    /\ pulled = 0
    /\ startup_merges = 1
    /\ merge_calls = 1
    /\ now - last_merge_time < merge_interval_seconds

\* the merge calls made by the loop
PeriodicMerges == merge_calls - startup_merges

\* C16: when the loop is back at the for statement, should_merge_data has been
\* called once for each message pulled, and the merge has been called and
\* last_merge_time assigned once for each call that returned True and never
\* for a call that returned False.
C16_OneCheckPerMessage ==
    /\ loop_pc = "pull" =>
         /\ checks = pulled
         /\ PeriodicMerges = due_checks
         /\ resets = due_checks
    /\ loop_pc \in {"route", "check"} => checks = pulled - 1
    /\ loop_pc = "branch" =>
         /\ checks = pulled
         /\ PeriodicMerges = due_checks - (IF should_merge THEN 1 ELSE 0)

\* two messages have been handled, one followed by a merge and one not
C16_Witness ==
    /\ loop_pc = "pull"
    /\ pulled >= 2
    /\ due_checks >= 1
    /\ due_checks < checks

\* C17: as long as no message has been pulled no check is made and the merge
\* call of run() is the only one, however long the loop has waited.
C17_NoMergeWithoutMessage ==
    pulled = 0 => (checks = 0 /\ PeriodicMerges = 0 /\ resets = 0)

\* the loop has waited for its first message for more than the merge interval
C17_Witness ==
    /\ loop_pc = "pull"
    /\ pulled = 0
    /\ startup_merges = 1
    /\ now - last_merge_time > merge_interval_seconds

\* the loop hands the message it has pulled to its handler, or to none
RouteStep == loop_pc = "route" /\ loop_pc' = "check"

\* buffer new is buffer old with exactly one record more, at its end
OneAppended(new, old) ==
    /\ Len(new) = Len(old) + 1
    /\ SubSeq(new, 1, Len(old)) = old

\* C18: a message of the customer topic adds exactly one record, made from the
\* message, to customer_records and leaves inventory_records as it was; a
\* message of the inventory topic adds exactly one record to inventory_records
\* and leaves customer_records as it was.
C18_RoutedByTopic ==
    [][ /\ (RouteStep /\ message.topic = CUSTOMER_TOPIC) =>
             /\ OneAppended(customer_records', customer_records)
             /\ customer_records'[Len(customer_records')].id = Get(message.value, "id")
             /\ inventory_records' = inventory_records
        /\ (RouteStep /\ message.topic = INVENTORY_TOPIC) =>
             /\ OneAppended(inventory_records', inventory_records)
             /\ inventory_records'[Len(inventory_records')].id = Get(message.value, "id")
             /\ customer_records' = customer_records ]_vars

\* a message of each topic has been handled, the inventory one last
C18_Witness ==
    /\ loop_pc = "check"
    /\ message.topic = INVENTORY_TOPIC
    /\ cust_calls = 1
    /\ inv_calls = 1
    /\ Len(inventory_records) >= 1

\* the message pulled is of a topic the loop has no handler for
UnknownTopic == message.topic \notin {CUSTOMER_TOPIC, INVENTORY_TOPIC}

\* C19: a message of any other topic changes neither buffer and raises
\* nothing: the loop goes on, in RUNNING, to the check that precedes the next
\* pull, unless a KeyboardInterrupt ends it.
C19_UnknownTopicIgnored ==
    [][ (loop_pc = "route" /\ loop_pc' # "route" /\ UnknownTopic) =>
          /\ customer_records' = customer_records
          /\ inventory_records' = inventory_records
          /\ cust_calls' = cust_calls
          /\ inv_calls' = inv_calls
          /\ raised' = raised
          /\ ended_by' \in {"none", "interrupt"}
          /\ ended_by' = "none" => loop_pc' = "check" ]_vars

\* after a message of an unknown topic, which no handler saw, the loop has
\* pulled the next message
C19_Witness ==
    /\ loop_pc = "route"
    /\ pulled = 2
    /\ cust_calls = 0
    /\ inv_calls = 0
    /\ UnknownTopic

\* the place of a lifecycle state in STARTING, RUNNING, SHUTTING_DOWN, STOPPED
LifecycleRank(l) ==
    CASE l = "STARTING" -> 0
      [] l = "RUNNING" -> 1
      [] l = "SHUTTING_DOWN" -> 2
      [] l = "STOPPED" -> 3

\* C20: the lifecycle never goes back to a state it has left, RUNNING is left
\* only for SHUTTING_DOWN, and in STOPPED nothing is pulled, appended or merged.
C20_LifecycleForwardOnly ==
    [][ /\ LifecycleRank(Lifecycle(loop_pc')) >= LifecycleRank(Lifecycle(loop_pc))
        /\ (Lifecycle(loop_pc) = "RUNNING" /\ Lifecycle(loop_pc') # "RUNNING") =>
              Lifecycle(loop_pc') = "SHUTTING_DOWN"
        /\ (Lifecycle(loop_pc) = "SHUTTING_DOWN" /\ Lifecycle(loop_pc') # "SHUTTING_DOWN") =>
              Lifecycle(loop_pc') = "STOPPED"
        /\ Lifecycle(loop_pc) = "STOPPED" =>
              /\ Lifecycle(loop_pc') = "STOPPED"
              /\ pulled' = pulled
              /\ customer_records' = customer_records
              /\ inventory_records' = inventory_records
              /\ merge_calls' = merge_calls
              /\ posts' = posts ]_vars

\* the consumer has stopped after a loop that pulled a message and merged
C20_Witness ==
    /\ loop_pc = "stopped"
    /\ closes = 1
    /\ pulled >= 1
    /\ PeriodicMerges >= 1

\* C21: a KeyboardInterrupt takes the loop to the finally clause, which closes
\* the Kafka consumer once; from the interrupt on no merge is called, no POST
\* is made and the buffers stay as they are, so what they hold is not sent.
C21_NoFlushOnInterrupt ==
    [][ ended_by' = "interrupt" =>
          /\ loop_pc' \in {"finally", "stopped"}
          /\ merge_calls' = merge_calls
          /\ posts' = posts
          /\ customer_records' = customer_records
          /\ inventory_records' = inventory_records
          /\ closes' = (IF loop_pc' = "stopped" THEN 1 ELSE 0) ]_vars

\* the consumer has stopped on an interrupt with a customer record in the
\* buffer that was appended after the last merge returned
C21_Witness ==
    /\ loop_pc = "stopped"
    /\ ended_by = "interrupt"
    /\ closes = 1
    /\ merge_calls > startup_merges
    /\ cust_calls > mark.ccalls
    /\ Len(customer_records) > 0

\* the POST of a merge made by run() or by the loop is in flight
DispatchInFlight == loop_pc \in {"startup_post", "merge_post"}

\* C22: while the POST of a merge is in flight the loop holds the lock, pulls
\* no message and appends to neither buffer.
C22_DispatchBlocksLoop ==
    [][ DispatchInFlight =>
          /\ lock = LoopThread
          /\ pulled' = pulled
          /\ message' = message
          /\ cust_calls' = cust_calls
          /\ inv_calls' = inv_calls
          /\ Len(customer_records') <= Len(customer_records)
          /\ Len(inventory_records') <= Len(inventory_records) ]_vars

\* the POST of a merge made by the loop is over and the loop goes on with as
\* many messages pulled as checks made
C22_Witness ==
    /\ loop_pc = "reset"
    /\ last_attempt.kind = "periodic"
    /\ posts > 0
    /\ pulled = checks
    /\ lock = 0

\* thread t is inside a `with self.lock:` block
InCriticalSection(t) ==
    pc[t] \in {"customer_append", "inventory_append", "merge_check", "merge_post"}

\* C23: at most one thread is inside a with block of process_customer_record,
\* process_inventory_record or merge_and_send_data, it is the one that holds
\* the lock, and a thread inside the block of an append holds no snapshot and
\* no batch.
C23_OneCriticalSection ==
    /\ \A t, u \in Threads : (InCriticalSection(t) /\ InCriticalSection(u)) => t = u
    /\ \A t \in Threads : InCriticalSection(t) <=> lock = t
    /\ \A t \in Threads :
          pc[t] \in {"customer_append", "inventory_append"} =>
              (pre[t] = NoPre /\ merged_data[t] = NULL)

\* one thread is about to append while the other, which has merged before,
\* waits outside
C23_Witness ==
    \E t, u \in Threads :
        /\ t # u
        /\ pc[t] = "customer_append"
        /\ pc[u] = "idle"
        /\ lock = t
        /\ merge_calls > 0

\* new is the last Len(new) records of old, in the same order
IsSuffix(new, old) ==
    /\ Len(new) <= Len(old)
    /\ new = SubSeq(old, Len(old) - Len(new) + 1, Len(old))

\* a thread leaves the with block of an append in this step
AppendReturns ==
    \E t \in Threads : pc[t] \in {"customer_append", "inventory_append"} /\ pc'[t] = "idle"

\* what one step may do to a buffer: nothing, or add one record at the tail
\* (and then the step is an append), or cut records off the head (and then
\* the step is the return of a merge whose POST was answered with status 200)
BufferStep(new, old) ==
    \/ new = old
    \/ OneAppended(new, old) /\ AppendReturns
    \/ /\ IsSuffix(new, old)
       /\ \E t \in Threads : DispatchReturns(t)
       /\ Status200(outcome')

\* C24: a buffer changes only by an append, which adds one record at its tail,
\* or by the trim of a merge, which cuts records off its head: it always holds
\* the newest records appended to it, in the order of the appends (the i-th
\* append on a buffer carries id i), with none missing in between.
C24_ContiguousSuffix ==
    [][ /\ BufferStep(customer_records', customer_records)
        /\ BufferStep(inventory_records', inventory_records)
        /\ \E last \in {cust_base + cust_calls - 1, cust_base + cust_calls} :
              Ids(customer_records) = IdRun(Len(customer_records), last)
        /\ \E last \in {inv_base + inv_calls - 1, inv_base + inv_calls} :
              Ids(inventory_records) = IdRun(Len(inventory_records), last) ]_vars

\* 101 customers have been appended and a merge has cut the buffer to the
\* newest 100, ids 2 to 101
C24_Witness ==
    /\ \A t \in Threads : pc[t] = "idle"
    /\ cust_base + cust_calls = RETAIN + 1
    /\ Len(customer_records) = RETAIN
    /\ customer_records[1].id = 2
    /\ customer_records[RETAIN].id = RETAIN + 1

\* the records of a buffer, as a set
Records(buffer) == {buffer[j] : j \in 1..Len(buffer)}

\* the records that a step takes out of a buffer
Removed(new, old) == IF new = old THEN {} ELSE Records(old) \ Records(new)

\* C30: whenever a step takes records out of a buffer, the step is the return
\* of a merge whose POST was answered with status 200, and every record taken
\* out was in the batch of that POST.
C30_RemovedOnlyAfterDelivery ==
    [][ (Removed(customer_records', customer_records) # {}
           \/ Removed(inventory_records', inventory_records) # {}) =>
          \E t \in Threads :
              /\ DispatchReturns(t)
              /\ Status200(outcome')
              /\ Removed(customer_records', customer_records)
                    \subseteq Records(merged_data[t].customers)
              /\ Removed(inventory_records', inventory_records)
                    \subseteq Records(merged_data[t].inventory) ]_vars

\* a second POST has been answered with status 200 and the customers it
\* carried have left the buffer
C30_Witness ==
    /\ \A t \in Threads : pc[t] = "idle"
    /\ Status200(outcome)
    /\ posts = 2
    /\ customer_records = <<>>
    /\ cust_calls > 0
    /\ mark.ccalls = cust_calls

\* the clock reading that datetime.isoformat() turned into stamp
ParseIso(stamp) == CHOOSE t \in 0..MaxTime : IsoFormat(t) = stamp

\* the received_at stamps of a buffer never decrease from one record to the next
StampsAscend(buffer) ==
    \A j \in 1..(Len(buffer) - 1) :
        \/ buffer[j].received_at = buffer[j + 1].received_at
        \/ ParseIso(buffer[j].received_at) <= ParseIso(buffer[j + 1].received_at)

\* C27: in each buffer the received_at stamps are non-decreasing in buffer
\* order, whichever threads made the appends and whatever the merges trimmed.
C27_StampsMonotone ==
    /\ StampsAscend(customer_records)
    /\ StampsAscend(inventory_records)

\* both threads have appended customers, the later append at a later reading
C27_Witness ==
    /\ ~split
    /\ cust_calls = 2
    /\ Len(customer_records) >= 2
    /\ customer_records[Len(customer_records) - 1].received_at = IsoFormat(0)
    /\ customer_records[Len(customer_records)].received_at = IsoFormat(1)

\* the loop leaves the handler call of consumer.py:121-125 in this step, and not
\* because of a KeyboardInterrupt
HandlerReturns ==
    /\ loop_pc = "route"
    /\ loop_pc' # "route"
    /\ ended_by' # "interrupt"

\* C25 as stated: whatever value the message carries, missing fields, fields of
\* the wrong type or no dict at all, the handler of its topic returns without
\* raising and has appended exactly one record to its buffer.
C25_AppendNeverRaises ==
    [][ /\ (HandlerReturns /\ Route(message.topic) = "customer") =>
             /\ loop_pc' = "check"
             /\ ended_by' = "none"
             /\ Len(customer_records') = Len(customer_records) + 1
        /\ (HandlerReturns /\ Route(message.topic) = "inventory") =>
             /\ loop_pc' = "check"
             /\ ended_by' = "none"
             /\ Len(inventory_records') = Len(inventory_records) + 1 ]_vars

\* the POST of a merge made by the loop ends in this step with a response of
\* another status than 200 or with a RequestException
DispatchFails ==
    /\ loop_pc = "merge_post"
    /\ loop_pc' # "merge_post"
    /\ ended_by' # "interrupt"
    /\ \/ outcome'.exc = NULL /\ outcome'.status_code # 200
       \/ outcome'.exc \in RequestExceptions

\* C26: a POST of the loop that ends with another status than 200 or with a
\* RequestException raises nothing: the merge returns with the buffers as they
\* were and the loop, still RUNNING, goes on to line 130 and to the next pull.
C26_DispatchFailureNotFatal ==
    [][ DispatchFails =>
          /\ loop_pc' = "reset"
          /\ ~raised'
          /\ ended_by' = "none"
          /\ lock' = 0
          /\ customer_records' = customer_records
          /\ inventory_records' = inventory_records ]_vars

\* after a failed POST the loop has pulled again and a later merge is sending
\* the records kept together with a new one
C26_Witness ==
    /\ loop_pc = "merge_post"
    /\ prev_attempt.kind = "periodic"
    /\ prev_attempt.failed
    /\ pulled >= 2
    /\ Len(merged_data[LoopThread].customers)
          + Len(merged_data[LoopThread].inventory) >= 2

\* a KeyboardInterrupt reaches the loop in this step
InterruptStep == ended_by = "none" /\ ended_by' = "interrupt"

\* C28 as stated: when a KeyboardInterrupt ends the loop during a merge, the
\* buffers are either both as the merge found them or both as its trim leaves
\* them, and so they stay until the consumer has stopped. (An append is one
\* list.append call: it has happened or it has not.)
C28_InterruptLeavesWholeOperations ==
    [][ (InterruptStep /\ pre[LoopThread] # NoPre) =>
          \/ /\ customer_records' = pre[LoopThread].customers
             /\ inventory_records' = pre[LoopThread].inventory
          \/ /\ customer_records' = Retain(pre[LoopThread].customers)
             /\ inventory_records' = Retain(pre[LoopThread].inventory) ]_vars

\* C29: when KafkaConsumer(...) raises in __init__ the caller gets the error and
\* no consumer: no merge is called, no POST made, no message pulled, nothing
\* appended and nothing closed, then or later.
C29_InitFailureIsFinal ==
    /\ ended_by = "init_error" =>
          /\ loop_pc = "init_failed"
          /\ merge_calls = 0
          /\ startup_merges = 0
          /\ posts = 0
          /\ pulled = 0
          /\ closes = 0
          /\ customer_records = <<>>
          /\ inventory_records = <<>>
    /\ loop_pc = "init_failed" => ended_by = "init_error"

\* the constructor has failed
C29_Witness ==
    /\ loop_pc = "init_failed"
    /\ ended_by = "init_error"
    /\ last_merge_time = 0

\* the batch in flight on thread t starts with the records the last merge left in
\* the buffers, in their order, followed by the records appended since
ResendsKept(t) ==
    LET b == merged_data[t]
    IN  /\ Len(b.customers) = mark.clen + (cust_calls - mark.ccalls)
        /\ Len(b.inventory) = mark.ilen + (inv_calls - mark.icalls)
        /\ Ids(SubSeq(b.customers, 1, mark.clen))
             = IdRun(mark.clen, cust_base + mark.ccalls)
        /\ Ids(SubSeq(b.inventory, 1, mark.ilen))
             = IdRun(mark.ilen, inv_base + mark.icalls)
        /\ Ids(b.customers) = IdRun(Len(b.customers), cust_base + cust_calls)
        /\ Ids(b.inventory) = IdRun(Len(b.inventory), inv_base + inv_calls)

\* C31: delivery is not at-most-once: every record a merge left in a buffer (the
\* last-100 window after a 200, the whole buffer after a failure) is part of the
\* next batch, in the same order and ahead of the newer records
C31_KeptRecordsSentAgain ==
    \A t \in Threads : pc[t] = "merge_post" => ResendsKept(t)

\* the 100 records kept after a 200 answer are in flight again in a second batch,
\* with nothing appended in between
C31_Witness ==
    \E t \in Threads :
        /\ pc[t] = "merge_post"
        /\ posts = 2
        /\ Status200(outcome)
        /\ mark.clen = RETAIN
        /\ Len(merged_data[t].customers) = RETAIN
        /\ cust_calls = mark.ccalls

\* C32: the startup merge of run() leaves last_merge_time at its value of
\* construction: the first periodic flush is due one merge interval after
\* construction, not one interval after the startup attempt
C32_StartupKeepsMergeTime ==
    /\ (startup_merges = 1 /\ resets = 0) => last_merge_time = 0
    /\ (loop_pc = "branch" /\ resets = 0) =>
         (should_merge <=> now >= merge_interval_seconds)
    /\ (last_attempt.kind = "periodic" /\ PeriodicMerges = 1) =>
         last_attempt.time >= merge_interval_seconds

\* the first periodic flush is due less than one interval after a startup
\* attempt that was made some time after construction
C32_Witness ==
    /\ loop_pc = "branch"
    /\ resets = 0
    /\ startup_merges = 1
    /\ should_merge
    /\ last_attempt.kind = "startup"
    /\ last_attempt.time > 0
    /\ now - last_attempt.time < merge_interval_seconds

\* C33: a periodic merge that finds both buffers empty sends nothing, yet
\* last_merge_time is reset after it, so that the next attempt comes at least one
\* full interval later
C33_EmptyFlushStillResets ==
    /\ posts = nonempty_merges
    /\ (loop_pc = "reset" /\ outcome = NoData) =>
         (last_attempt.kind = "periodic" /\ lock = 0 /\ merged_data[LoopThread] = NULL)
    /\ (BetweenAttempts /\ last_attempt.kind = "periodic" /\ outcome = NoData) =>
         /\ last_merge_time >= last_attempt.time
         /\ resets = PeriodicMerges
    /\ (prev_attempt.kind = "periodic" /\ nonempty_merges = 0) =>
         last_attempt.time >= prev_attempt.time + merge_interval_seconds

\* two periodic merges in a row found nothing to send, a full interval apart
C33_Witness ==
    /\ BetweenAttempts
    /\ prev_attempt.kind = "periodic"
    /\ last_attempt.kind = "periodic"
    /\ nonempty_merges = 0
    /\ posts = 0
    /\ outcome = NoData
    /\ resets = 2
    /\ pulled = 2
    /\ UnknownTopic

\* C34: merge_and_send_data holds the lock from the snapshot to the end of the
\* POST and of the trim: while a dispatch is in flight on thread t the lock is
\* t's, and the one step that can follow is the return of that dispatch, which
\* applies the trim decision; no append of another thread starts or takes effect
\* before it
C34_LockHeldThroughDispatch ==
    [][ \A t \in Threads :
          pc[t] = "merge_post" =>
            /\ lock = t
            /\ pc' = [pc EXCEPT ![t] = "idle"]
            /\ outcome' \in Outcomes
            /\ cust_calls' = cust_calls
            /\ inv_calls' = inv_calls
            /\ customer_records' = IF Status200(outcome') THEN Retain(customer_records)
                                    ELSE customer_records
            /\ inventory_records' = IF Status200(outcome') THEN Retain(inventory_records)
                                     ELSE inventory_records
            /\ lock' = 0 ]_vars

\* an append made by the other thread goes ahead after a dispatch that was
\* answered 200 cleared the buffers
C34_Witness ==
    \E t \in Threads :
        /\ pc[t] = "inventory_append"
        /\ lock = t
        /\ posts = 1
        /\ Status200(outcome)
        /\ customer_records = <<>>
        /\ cust_base + cust_calls > 0

\* C35: the lock is released on every way out of an append and of a merge (early
\* return on empty buffers, status 200, another status, a request exception that
\* is caught, an exception that propagates): a thread that is outside these
\* methods does not hold the lock, and with every thread outside the lock is free
C35_LockFreeWhenIdle ==
    /\ lock \in {0} \cup Threads
    /\ \A t \in Threads : pc[t] = "idle" => lock # t
    /\ (\A t \in Threads : pc[t] = "idle") => lock = 0

\* a merge was left by an exception it does not catch, and the lock is free
C35_Witness ==
    /\ \A t \in Threads : pc[t] = "idle"
    /\ raised
    /\ outcome.exc \in OtherExceptions
    /\ lock = 0
    /\ merge_calls < MaxMerges

\* an exception other than KeyboardInterrupt has been raised inside the for loop
\* of consume_messages by the end of this step
ErrorInLoop ==
    /\ ended_by' = "error"
    /\ Lifecycle(loop_pc) \in {"RUNNING", "SHUTTING_DOWN"}

\* C36: an error raised inside the loop, other than the stop interrupt, ends the
\* loop for good: it is caught and logged, the finally clause closes the
\* subscription once and run() returns without raising; from the error on no
\* message is pulled, no merge is called, no POST is made and the buffers stay
\* as they are, so what they hold is never dispatched
C36_LoopErrorIsFinal ==
    [][ ErrorInLoop =>
          /\ loop_pc' \in {"finally", "stopped"}
          /\ pulled' = pulled
          /\ checks' = checks
          /\ merge_calls' = merge_calls
          /\ posts' = posts
          /\ customer_records' = customer_records
          /\ inventory_records' = inventory_records
          /\ lock' = 0
          /\ closes' = (IF loop_pc' = "stopped" THEN 1 ELSE 0) ]_vars

\* the consumer has stopped on an append that failed on a payload without get,
\* with a customer record left in the buffer
C36_Witness ==
    /\ loop_pc = "stopped"
    /\ ended_by = "error"
    /\ closes = 1
    /\ pulled = 2
    /\ ~HasGet(message.value)
    /\ message.topic = INVENTORY_TOPIC
    /\ Len(customer_records) > 0
    /\ posts = 0

\* C37: the Kafka consumer is closed exactly once on every way out of the for
\* loop (the iterator ends, a KeyboardInterrupt, an exception in the loop), and
\* it is not closed while the loop can still pull a message
C37_ClosedOnceOnExit ==
    /\ closes \in {0, 1}
    /\ Lifecycle(loop_pc) \in {"STARTING", "RUNNING", "SHUTTING_DOWN"} => closes = 0
    /\ loop_pc = "stopped" =>
          (closes = 1 /\ ended_by \in {"exhausted", "interrupt", "error"})
    /\ ended_by \in {"exhausted", "interrupt"} => loop_pc \in {"finally", "stopped"}
    /\ (ended_by = "error" /\ loop_pc # "crashed") => loop_pc \in {"finally", "stopped"}

\* the iterator has ended after two messages and the consumer has been closed
C37_Witness ==
    /\ loop_pc = "stopped"
    /\ ended_by = "exhausted"
    /\ closes = 1
    /\ pulled = 2
    /\ checks = 2

\* the payload fields a stored customer record and a stored product are made of
CustomerFields == {"id", "name", "email", "status", "created_date"}

InventoryFields == {"id", "name", "price", "quantity", "category"}

\* stored has exactly the given fields and received_at; each of the fields holds
\* the payload's value where the payload has the field and None where it has not
IsProjection(stored, payload, fields) ==
    /\ DOMAIN stored = fields \cup {"received_at"}
    /\ \A k \in fields :
          IF k \in DOMAIN payload THEN stored[k] = payload[k] ELSE stored[k] = NULL

\* C39: an append stores a projection of the payload: a customer record has
\* exactly id, name, email, status, created_date and received_at, a product
\* exactly id, name, price, quantity, category and received_at; a field of the
\* payload is copied as it is, a field the payload lacks is None, and any other
\* field of the payload (the mock API's stock) is dropped
C39_AppendProjects ==
    [][ \A t \in Threads :
          /\ (pc[t] = "customer_append" /\ pc'[t] = "idle") =>
                /\ customer_records' # <<>>
                /\ IsProjection(customer_records'[Len(customer_records')],
                                record[t], CustomerFields)
          /\ (pc[t] = "inventory_append" /\ pc'[t] = "idle") =>
                /\ inventory_records' # <<>>
                /\ IsProjection(inventory_records'[Len(inventory_records')],
                                record[t], InventoryFields) ]_vars

\* a product as the mock API serves it has been stored, without its stock and
\* with no quantity, next to a customer stored without a status
C39_Witness ==
    /\ inventory_records # <<>>
    /\ customer_records # <<>>
    /\ LET p == inventory_records[Len(inventory_records)]
           c == customer_records[Len(customer_records)]
       IN  /\ p.id % 2 = 0
           /\ p.quantity = NULL
           /\ p.price = "999.99"
           /\ "stock" \notin DOMAIN p
           /\ c.status = NULL
           /\ c.email = "john@example.com"
    /\ cust_calls = 1
    /\ inv_calls = 1

\* the ids that the records appended by the loop carry
LiveIds == 1..MaxMessages

\* merge_and_send_data has been called by the loop because a merge was due
MergeAttempted == should_merge /\ loop_pc \in {"merge_post", "reset"}

\* the loop has ended: the iterator is exhausted or an exception has left the try
LoopEnded == ended_by # "none"

\* the customer record / the product of id i is in its buffer
CustomerBuffered(i) == \E j \in 1..Len(customer_records) : customer_records[j].id = i

InventoryBuffered(i) == \E j \in 1..Len(inventory_records) : inventory_records[j].id = i

\* the customer record / the product of id i is in the batch being posted
CustomerInBatch(i) ==
    /\ loop_pc = "merge_post"
    /\ \E j \in 1..Len(merged_data[LoopThread].customers) :
          merged_data[LoopThread].customers[j].id = i

InventoryInBatch(i) ==
    /\ loop_pc = "merge_post"
    /\ \E j \in 1..Len(merged_data[LoopThread].inventory) :
          merged_data[LoopThread].inventory[j].id = i

\* C38: under steady traffic (messages keep arriving, the clock goes on, every
\* POST ends) and for as long as the loop has not ended, a merge is attempted
\* again and again, and every record that is in a buffer when its handler has
\* returned is later part of a batch that is posted
C38_FlushesUnderTraffic ==
    /\ []<>MergeAttempted \/ <>LoopEnded
    /\ \A i \in LiveIds :
          (loop_pc = "check" /\ CustomerBuffered(i)) ~> (CustomerInBatch(i) \/ LoopEnded)
    /\ \A i \in LiveIds :
          (loop_pc = "check" /\ InventoryBuffered(i)) ~> (InventoryInBatch(i) \/ LoopEnded)

\* a customer record and a product appended by the loop are in a batch that is
\* posted after an earlier POST has failed
C38_Witness ==
    /\ CustomerInBatch(1)
    /\ InventoryInBatch(1)
    /\ FailedDispatch(outcome)
    /\ ~LoopEnded

====
